---- MODULE Spec2Model ----
(***************************************************************************)
(* The LinkedIn and Twitter browser-automation workers of                  *)
(* ai-tinkerers-hack as state machines.                                    *)
(*                                                                         *)
(* Every request handler is a coroutine on one asyncio event loop.  An     *)
(* action of the model is one resumption of a handler: the awaited browser *)
(* operation completes and the synchronous code after it runs up to the    *)
(* next await.  The browser, the site and the session file are the         *)
(* environment: what a navigation lands on, whether a control is rendered  *)
(* and whether an operation raises are chosen by the environment.          *)
(***************************************************************************)
EXTENDS Integers, Sequences, FiniteSets, TLC

\* ------------------------------------------------------------------ bounds
NReq == 2            \* request slots: handlers that may be in flight at once
MaxRequests == 2     \* requests a worker accepts in one run

None == "None"       \* Python's None
Reqs == 1..NReq

\* ---------------------------------------------------------- shared helpers
Truthy(v) == v # None /\ v # ""

\* A DOM is a set of elements; an element records the selector it answers to
\* and whether it is rendered visible.
El(sel, vis) == [sel |-> sel, visible |-> vis]

\* ElementHandle lookup without a visibility requirement.
query_selector(dom, sel) == \E e \in dom : e.sel = sel

\* Playwright waits for state="visible" by default and raises TimeoutError
\* otherwise: TRUE is "an element was returned".
wait_for_selector(dom, sel) == \E e \in dom : e.sel = sel /\ e.visible

wait_for_any(dom, sels) == \E s \in sels : wait_for_selector(dom, s)

\* Index of the first selector of the list that wait_for_selector finds, 0 if none.
RECURSIVE FirstFrom(_, _, _)
FirstFrom(dom, sels, i) ==
  IF i > Len(sels) THEN 0
  ELSE IF wait_for_selector(dom, sels[i]) THEN i
  ELSE FirstFrom(dom, sels, i + 1)

FirstMatch(dom, sels) == FirstFrom(dom, sels, 1)

Range(s) == {s[i] : i \in DOMAIN s}

\* ------------------------------------------------------- LinkedIn: the site
BLANK == "about:blank"
FEED == "https://www.linkedin.com/feed/"
LOGIN == "https://www.linkedin.com/login"
CHECKPOINT == "https://www.linkedin.com/checkpoint/challenge/verify"
AUTHWALL == "https://www.linkedin.com/authwall"
ONBOARDING == "https://www.linkedin.com/onboarding/start/"
NETERROR == "about:neterror"
PROFILE == "https://www.linkedin.com/in/jdoe"
PROFILE_REL == "/in/jdoe"
SEARCH == "https://www.linkedin.com/search/results/people/?keywords=Jane%20Q.%20Public"
NAME == "Jane Q. Public"
NOTE == "Hi Jdoe!"

\* The substrings the code tests a URL for ('x' in url).
UrlWords(u) ==
  CASE u = FEED -> {"linkedin.com", "feed"}
    [] u = LOGIN -> {"linkedin.com", "login"}
    [] u = CHECKPOINT -> {"linkedin.com", "checkpoint", "challenge"}
    [] u = AUTHWALL -> {"linkedin.com"}
    [] u = ONBOARDING -> {"linkedin.com"}
    [] u = PROFILE -> {"linkedin.com"}
    [] u = SEARCH -> {"linkedin.com"}
    [] OTHER -> {}

UrlHas(u, w) == w \in UrlWords(u)

startswith_slash(u) == u = PROFILE_REL

LI_NAV == ".global-nav__primary-link"
LI_SESSION_KEY == "input[name=\"session_key\"]"

\* _load_session's selectors (lines 161 and 179).
loggedin_selectors == {".global-nav__primary-link", ".feed-shared-actor__name",
                       "[data-test-global-nav-profile]"}
feed_or_login_selectors == {LI_SESSION_KEY} \cup loggedin_selectors

FeedDOM == {El(LI_NAV, TRUE)}
LoginDOM == {El(LI_SESSION_KEY, TRUE), El("#username", TRUE), El("#password", TRUE)}

\* Where a navigation to the feed lands: the feed for an authenticated
\* context, the login form otherwise.
FeedLanding(auth) ==
  IF auth THEN [url |-> FEED, dom |-> FeedDOM] ELSE [url |-> LOGIN, dom |-> LoginDOM]


\* ------------------------------------------------ LinkedIn: selector lists
\* _add_by_profile_url, lines 290-296 and 323-328.
connect_selectors ==
  << "button:has-text(\"Connect\")",
     "button[aria-label*=\"Connect\"]",
     ".pvs-profile-actions button:has-text(\"Connect\")",
     "div[data-test-icon=\"connect-medium\"] + span",
     ".pv-s-profile-actions button:has-text(\"Connect\")" >>

send_selectors ==
  << "button:has-text(\"Send\")",
     "button[aria-label*=\"Send\"]",
     "button.ml1:has-text(\"Send\")",
     "button[data-test-modal-primary-action]" >>

MESSAGE_BUTTON == "button:has-text(\"Message\")"
PENDING_BUTTON == "button:has-text(\"Pending\")"

\* ------------------------------------------------------- LinkedIn: fixtures
\* The target profile as the site holds it.  status is the relationship with
\* the account; the other fields say how the page renders its controls:
\* which selector of connect_selectors / send_selectors the control answers
\* to (0: the control is not rendered), whether it is visible, whether
\* clicking Connect opens a confirmation modal, and whether the site accepts
\* the invitation when it is submitted.
\* For a search by name: whether the page offers a search box, how the first
\* result link is rendered ("none", "hidden", or visible with a relative
\* ("rel") or absolute ("abs") href), and which Connect strategy of
\* _add_by_search finds a visible button in the result list (0: none).
Fixture(st, c, cv, msg, modal, snd, acc) ==
  [status |-> st, connect |-> c, connectVisible |-> cv, message |-> msg,
   modal |-> modal, send |-> snd, accepts |-> acc,
   searchbox |-> TRUE, result |-> "rel", listed |-> 0, connect2 |-> 0,
   note |-> TRUE]

Listing(f, sb, res, l) == [f EXCEPT !.searchbox = sb, !.result = res, !.listed = l]

LI_Fixtures ==
  { Fixture("stranger", 1, TRUE, "absent", TRUE, 1, TRUE),
    Fixture("stranger", 2, TRUE, "absent", TRUE, 4, FALSE),
    Fixture("stranger", 1, TRUE, "absent", TRUE, 0, TRUE),
    Fixture("stranger", 1, TRUE, "absent", FALSE, 0, TRUE),
    Fixture("stranger", 1, FALSE, "absent", TRUE, 1, TRUE),
    Fixture("stranger", 0, FALSE, "absent", FALSE, 0, TRUE),
    Fixture("connected", 0, FALSE, "visible", FALSE, 0, TRUE),
    Fixture("connected", 0, FALSE, "hidden", FALSE, 0, TRUE),
    Fixture("pending", 0, FALSE, "absent", FALSE, 0, TRUE),
    [Fixture("stranger", 1, FALSE, "absent", TRUE, 1, TRUE) EXCEPT !.connect2 = 3],
    [Fixture("stranger", 2, TRUE, "absent", TRUE, 1, TRUE) EXCEPT !.connect2 = 5],
    Listing(Fixture("stranger", 1, TRUE, "absent", TRUE, 1, TRUE), FALSE, "abs", 0),
    Listing(Fixture("stranger", 1, TRUE, "absent", TRUE, 1, TRUE), TRUE, "none", 0),
    Listing(Fixture("stranger", 1, TRUE, "absent", TRUE, 1, TRUE), TRUE, "hidden", 0),
    Listing(Fixture("stranger", 1, TRUE, "absent", TRUE, 1, TRUE), TRUE, "rel", 1),
    Listing(Fixture("stranger", 1, TRUE, "absent", TRUE, 1, TRUE), TRUE, "rel", 2),
    Listing(Fixture("stranger", 1, TRUE, "absent", FALSE, 0, TRUE), TRUE, "rel", 3) }

ControlDOM(sels, i, vis) == IF i = 0 THEN {} ELSE {El(sels[i], vis)}

MessageDOM(m) == IF m = "absent" THEN {} ELSE {El(MESSAGE_BUTTON, m = "visible")}

\* The "Add a note" button of the invitation modal.
ADD_NOTE == "button:has-text(\"Add a note\")"

ModalDOM(w) ==
  IF w.modal THEN {El("[role=\"dialog\"]", TRUE)} \cup ControlDOM(send_selectors, w.send, TRUE)
                  \cup (IF w.note THEN {El(ADD_NOTE, TRUE)} ELSE {})
  ELSE {}

\* The profile page as served to the context: the auth wall when the context
\* is not authenticated.
ProfileDOM(w, auth) ==
  IF ~auth THEN {}
  ELSE (IF w.status = "stranger"
          THEN ControlDOM(connect_selectors, w.connect, w.connectVisible)
               \cup ControlDOM(connect_selectors, w.connect2, TRUE)
          ELSE {})
       \cup (IF w.status = "pending" THEN {El(PENDING_BUTTON, TRUE)} ELSE {})
       \cup MessageDOM(w.message)

\* ---------------------------------------------------------- LinkedIn: state
VARIABLES
  li_up,            \* the app runs (lifespan entered, not yet exited)
  li_browser,       \* LinkedInAutomationAPI.browser: a browser id, 0 for None
  li_context,       \* .context
  li_page,          \* .page
  li_is_logged_in,  \* .is_logged_in
  li_file,          \* linkedin_session.json: "none", "valid", "stale", "malformed"
  li_open,          \* the browser processes that are running
  li_url,           \* URL of the page .page refers to
  li_dom,           \* its DOM
  li_auth,          \* the context carries cookies the site accepts
  li_world,         \* the target profile as the site holds it
  li_req,           \* the add-connection handlers, by slot
  li_arrived,       \* requests accepted so far
  li_inflight,      \* how many handlers the client lets run at once
  li_bodies,        \* the request bodies the client sends
  li_login_entered, \* _login has been entered
  li_checkpointed,  \* a login attempt has ended at a security checkpoint
  li_shutdown,      \* what cleanup() did, in order
  li_health         \* the answer to the last GET /health, until it is delivered

liVars == << li_up, li_browser, li_context, li_page, li_is_logged_in, li_file,
             li_open, li_url, li_dom, li_auth, li_world, li_req,
             li_arrived, li_inflight, li_bodies, li_login_entered,
             li_checkpointed, li_shutdown, li_health >>


IdleReq ==
  [pc |-> "idle", endpoint |-> "/api/add-connection", profile_url |-> None, name |-> None, message |-> None,
   http |-> 0, success |-> FALSE, msg |-> "", exc |-> "", url |-> None,
   ops |-> << >>, replay |-> "none", login |-> "none",
   was_logged_in |-> FALSE, observed |-> FALSE, snapshot |-> "none",
   escaped |-> FALSE, swallowed |-> FALSE, used |-> << >>,
   world |-> Fixture("stranger", 0, FALSE, "absent", FALSE, 0, TRUE)]

\* __init__ (lines 46-57) and lifespan's entry (app.py 29-37): nothing is
\* launched at startup.
Body(u, n, m) ==
  [endpoint |-> "/api/add-connection", profile_url |-> u, name |-> n, message |-> m]

\* The body of POST /api/process-business-card: name and linkedin_url.
Card(n, u) ==
  [endpoint |-> "/api/process-business-card", profile_url |-> u, name |-> n,
   message |-> None]

LI_Bodies ==
  { Body(u, n, m) : u \in {None, PROFILE}, n \in {None, NAME}, m \in {None, NOTE} }
    \cup { Card(NAME, None), Card(None, PROFILE), Card(None, None) }

LI_Files == {"none", "valid", "stale", "malformed"}

LI_InitWith(up, n, files, fixtures, bodies) ==
  /\ li_up = up
  /\ li_browser = 0 /\ li_context = 0 /\ li_page = 0
  /\ li_is_logged_in = FALSE
  /\ li_file \in files
  /\ li_open = {}
  /\ li_url = BLANK /\ li_dom = {}
  /\ li_auth = FALSE
  /\ li_world \in fixtures
  /\ li_req = [r \in Reqs |-> IdleReq]
  /\ li_arrived = 0
  /\ li_inflight = n
  /\ li_bodies = bodies
  /\ li_login_entered = FALSE
  /\ li_checkpointed = FALSE
  /\ li_shutdown = << >>
  /\ li_health = << >>


\* ------------------------------------------------- LinkedIn: the handlers
EXC == "Timeout 30000ms exceeded."     \* str(e) of a browser operation that raised

Alive(h) == h # 0 /\ h \in li_open       \* the handle is not None and not closed

Op(q, o) == [q EXCEPT !.ops = Append(@, o)]

\* The handler's return (or its HTTPException).
Respond(q, http, success, msg, exc, url) ==
  [q EXCEPT !.pc = "done", !.http = http, !.success = success, !.msg = msg,
            !.exc = exc, !.url = url]

\* History of a handler: an operation of its action raised and the exception
\* left the selector loops (escaped), or a bare except inside a loop caught
\* it (swallowed).
Escape(q) == [q EXCEPT !.escaped = TRUE]

Swallow(q, caught) == [q EXCEPT !.swallowed = @ \/ caught]

\* An exception that reaches app.add_connection, which answers 500 (137-139).
error_result_Propagates(q, msg, url) ==
  Respond(q, 500, FALSE, "Failed to add connection: ", EXC, None)

\* The except clauses of _add_by_profile_url (344-345) and _add_by_search
\* (651-652): the exception becomes a failure result carrying its message.
error_result(q, msg, url) == Respond(q, 200, FALSE, msg, EXC, url)

\* A dispatch that lacks the not-logged-in return of add_connection.
Dispatch_Unguarded(q, logged) ==
  IF ~Truthy(q.profile_url) /\ ~Truthy(q.name)
    THEN Respond(q, 400, FALSE, "Either profile_url or name must be provided", "", None)
  ELSE IF Truthy(q.profile_url) THEN [q EXCEPT !.pc = "url_goto"]
  ELSE [q EXCEPT !.pc = "search_nav"]

\* app.add_connection lines 122-126 and add_connection lines 265-274: the
\* validation, the not-logged-in return and the choice of the flow, all run
\* without an await in between.
Dispatch(q, logged) ==
  IF ~Truthy(q.profile_url) /\ ~Truthy(q.name)
    THEN Respond(q, 400, FALSE, "Either profile_url or name must be provided", "", None)
  ELSE IF ~logged
    THEN Respond(q, 200, FALSE, "Not logged into LinkedIn", "", None)
  ELSE IF Truthy(q.profile_url) THEN [q EXCEPT !.pc = "url_goto"]
  ELSE [q EXCEPT !.pc = "search_nav"]

\* initialize, lines 61-62.
initialize_returns_early(logged, page) == logged /\ page # 0

\* An entry that builds the session anew for every request.
Enter_AlwaysInitialize(q, logged, page) == [q EXCEPT !.pc = "setup"]

\* app.add_connection lines 115-120 entering initialize.
Enter(q, logged, page) ==
  IF logged THEN Dispatch(q, logged)
  ELSE IF initialize_returns_early(logged, page) THEN Dispatch(q, logged)
  ELSE [q EXCEPT !.pc = "setup"]

\* The message process_business_card writes (app.py 171-174).
CARD_NOTE == "Hi Jane! I'd like to connect with you on LinkedIn."

\* str(e) of the HTTPException raised at app.py 168-169.
CARD_400 == "400: Name or LinkedIn URL required"

\* app.process_business_card, lines 153-195: 401 when the worker is not
\* logged in; the 400 for a card without name and URL is raised inside the
\* try and answered as 500 by its except clause.
process_business_card(q, logged) ==
  IF ~logged
    THEN Respond(q, 401, FALSE, "Not logged into LinkedIn", "", None)
  ELSE IF ~Truthy(q.name) /\ ~Truthy(q.profile_url)
    THEN Respond(q, 500, FALSE, "Failed to process business card: ", CARD_400, None)
  ELSE Dispatch([q EXCEPT !.name = IF Truthy(q.profile_url) THEN None ELSE q.name,
                          !.message = CARD_NOTE], logged)

\* The route of a request by its path.
Route(q, logged, page) ==
  IF q.endpoint = "/api/process-business-card"
    THEN process_business_card(q, logged)
    ELSE Enter(q, logged, page)

\* An initialize that runs _login whatever _load_session found.
AfterLoad_AlwaysLogin(q, logged) == [q EXCEPT !.pc = "login"]

\* initialize lines 66-68, after _load_session has returned.
AfterLoad(q, logged) ==
  IF ~logged THEN [q EXCEPT !.pc = "login"] ELSE Dispatch(q, logged)

\* The slots whose handler is running.
Busy(req) == {q \in Reqs : req[q].pc \notin {"idle", "done"}}

\* A new handler takes the lowest slot that is not running one.
FreeSlot(req) ==
  IF Busy(req) = Reqs THEN 0 ELSE CHOOSE q \in Reqs \ Busy(req) : \A p \in Reqs \ Busy(req) : q <= p

\* A response stays in its slot until the next request arrives.
Delivered(req) == [q \in Reqs |-> IF req[q].pc = "done" THEN IdleReq ELSE req[q]]

\* POST /api/add-connection or /api/process-business-card is accepted and
\* runs to its first await.
LI_Arrive(r) ==
  /\ li_up
  /\ r = FreeSlot(li_req)
  /\ li_arrived < MaxRequests
  /\ Cardinality(Busy(li_req)) < li_inflight
  /\ \E b \in li_bodies :
       LET q == [IdleReq EXCEPT !.pc = "start", !.endpoint = b.endpoint,
                                !.profile_url = b.profile_url,
                                !.name = b.name, !.message = b.message,
                                !.was_logged_in = li_is_logged_in,
                                !.world = li_world]
       IN li_req' = [Delivered(li_req) EXCEPT ![r] = Route(q, li_is_logged_in, li_page)]
  /\ li_arrived' = li_arrived + 1
  /\ UNCHANGED << li_up, li_browser, li_context, li_page, li_is_logged_in, li_file,
                  li_open, li_url, li_dom, li_auth, li_world,
                  li_inflight, li_bodies, li_login_entered, li_checkpointed, li_shutdown >>
  /\ li_health' = << >>

\* _setup_browser lines 74-93: whatever the instance refers to is closed.
LI_SetupClose(r) ==
  /\ li_req[r].pc = "setup"
  /\ li_open' = li_open \ {li_page, li_context, li_browser}
  /\ li_req' = [li_req EXCEPT ![r] =
       [(IF li_browser # 0 THEN Op(@, "close") ELSE @) EXCEPT !.pc = "launch"]]
  /\ UNCHANGED << li_up, li_browser, li_context, li_page, li_is_logged_in, li_file,
                  li_url, li_dom, li_auth, li_world, li_arrived,
                  li_inflight, li_bodies, li_login_entered, li_checkpointed, li_shutdown >>
  /\ UNCHANGED li_health

\* The id of a browser process that starts: the lowest one not running.
NewId(open) == CHOOSE i \in 1..(Cardinality(open) + 1) : i \notin open

\* _setup_browser lines 96-119: playwright is started, Firefox launched, a
\* context and a page created.  When that raises, _cleanup_browser runs and
\* the exception reaches app.add_connection, which answers 500.
LI_Launch(r) ==
  /\ li_req[r].pc = "launch"
  /\ \E ok \in BOOLEAN :
       IF ok
       THEN /\ li_browser' = NewId(li_open)
            /\ li_context' = NewId(li_open)
            /\ li_page' = NewId(li_open)
            /\ li_open' = li_open \cup {NewId(li_open)}
            /\ li_url' = BLANK /\ li_dom' = {} /\ li_auth' = FALSE
            /\ li_req' = [li_req EXCEPT ![r] = [Op(@, "launch") EXCEPT !.pc = "load"]]
            /\ UNCHANGED li_is_logged_in
       ELSE /\ li_open' = li_open \ {li_page, li_context, li_browser}
            /\ li_browser' = 0 /\ li_context' = 0 /\ li_page' = 0
            /\ li_is_logged_in' = FALSE
            /\ li_req' = [li_req EXCEPT ![r] =
                 Respond(Op(@, "launch"), 500, FALSE, "Failed to initialize: ", EXC, None)]
            /\ UNCHANGED << li_url, li_dom, li_auth >>
  /\ UNCHANGED << li_up, li_file, li_world, li_arrived, li_inflight, li_bodies,
                  li_login_entered, li_checkpointed, li_shutdown >>
  /\ UNCHANGED li_health

\* _load_session, lines 139-205, as a function of the file, the page and
\* whether the navigation to the feed raises.  replay names the branch taken.
load_session(file, logged, url, dom, auth, alive, navok) ==
  LET same(tag) == [logged |-> logged, url |-> url, dom |-> dom, auth |-> auth,
                    replay |-> tag, nav |-> FALSE]
  IN
  IF file = "none" THEN same("nofile")
  ELSE IF file = "malformed" THEN same("unreadable")
  ELSE IF ~alive THEN same("error")
  ELSE
    LET a == auth \/ file = "valid" IN
    IF UrlHas(url, "linkedin.com") /\ ~UrlHas(url, "login")
    THEN [logged |-> wait_for_any(dom, loggedin_selectors), url |-> url, dom |-> dom,
          auth |-> a, nav |-> FALSE,
          replay |-> IF wait_for_any(dom, loggedin_selectors) THEN "loggedin" ELSE "expired"]
    ELSE IF ~navok
    THEN [logged |-> FALSE, url |-> NETERROR, dom |-> {}, auth |-> a,
          replay |-> "navfault", nav |-> TRUE]
    ELSE
      LET land == FeedLanding(a)
          verdict ==
            IF ~wait_for_any(land.dom, feed_or_login_selectors) THEN "unclear"
            ELSE IF query_selector(land.dom, LI_SESSION_KEY) THEN "expired"
            ELSE IF UrlHas(land.url, "feed")
                    \/ (UrlHas(land.url, "linkedin.com") /\ ~UrlHas(land.url, "login"))
              THEN "loggedin"
            ELSE "unclear"
      IN [logged |-> verdict = "loggedin", url |-> land.url, dom |-> land.dom,
          auth |-> a, replay |-> verdict, nav |-> TRUE]

LI_Load(r) ==
  /\ li_req[r].pc = "load"
  /\ \E navok \in BOOLEAN :
       LET res == load_session(li_file, li_is_logged_in, li_url, li_dom, li_auth,
                               Alive(li_page), navok)
           q1 == Op(li_req[r], "load")
           q2 == IF res.nav THEN Op(q1, "goto:feed") ELSE q1
       IN /\ li_is_logged_in' = res.logged
          /\ li_url' = res.url /\ li_dom' = res.dom /\ li_auth' = res.auth
          /\ li_req' = [li_req EXCEPT ![r] =
               AfterLoad([q2 EXCEPT !.replay = res.replay, !.snapshot = li_file], res.logged)]
  /\ UNCHANGED << li_up, li_browser, li_context, li_page, li_file, li_open,
                  li_world, li_arrived, li_inflight, li_bodies,
                  li_login_entered, li_checkpointed, li_shutdown >>
  /\ UNCHANGED li_health


\* What the site does with the submitted credentials: the feed is reached
\* within the wait, or wait_for_url times out with the page on some URL, or
\* an operation of the form entry raises.
LI_LoginOutcomes ==
  { [kind |-> "feed", url |-> FEED, auth |-> TRUE],
    [kind |-> "timeout", url |-> CHECKPOINT, auth |-> FALSE],
    [kind |-> "timeout", url |-> LOGIN, auth |-> FALSE],
    [kind |-> "timeout", url |-> AUTHWALL, auth |-> FALSE],
    [kind |-> "timeout", url |-> ONBOARDING, auth |-> TRUE],
    [kind |-> "raise", url |-> LOGIN, auth |-> FALSE] }

LandingDOM(url) ==
  IF url = FEED THEN FeedDOM ELSE IF url = LOGIN THEN LoginDOM ELSE {}

\* _login lines 230-251: is_logged_in after the attempt and the branch taken.
login(o) ==
  IF o.kind = "raise" THEN [logged |-> FALSE, outcome |-> "raised"]
  ELSE IF o.kind = "feed" THEN [logged |-> TRUE, outcome |-> "ok"]
  ELSE IF UrlHas(o.url, "checkpoint") \/ UrlHas(o.url, "challenge")
    THEN [logged |-> FALSE, outcome |-> "checkpoint"]
  ELSE IF UrlHas(o.url, "login") THEN [logged |-> FALSE, outcome |-> "failed"]
  ELSE [logged |-> TRUE, outcome |-> "assumed"]

after_login_SkipSave(q, res) ==
  IF res.outcome = "raised"
  THEN Respond(q, 500, FALSE, "Failed to initialize: ", EXC, None)
  ELSE Dispatch(q, res.logged)

\* initialize after _login: an exception leaves through app.add_connection,
\* any other end of the login goes on to _save_session.
after_login(q, res) ==
  IF res.outcome = "raised"
  THEN Respond(q, 500, FALSE, "Failed to initialize: ", EXC, None)
  ELSE [q EXCEPT !.pc = "save"]

\* _login, lines 207-251; when it raises, initialize raises and
\* app.add_connection answers 500 (lines 118-120).
LI_Login(r) ==
  /\ li_req[r].pc = "login"
  /\ \E o \in LI_LoginOutcomes :
       LET res == IF Alive(li_page) THEN login(o) ELSE [logged |-> FALSE, outcome |-> "raised"]
           q == [Op(li_req[r], "login") EXCEPT !.login = res.outcome]
       IN /\ li_is_logged_in' = res.logged
          /\ IF Alive(li_page)
               THEN li_url' = o.url /\ li_dom' = LandingDOM(o.url) /\ li_auth' = o.auth
               ELSE UNCHANGED << li_url, li_dom, li_auth >>
          /\ li_checkpointed' = (li_checkpointed \/ res.outcome = "checkpoint")
          /\ li_req' = [li_req EXCEPT ![r] = after_login(q, res)]
  /\ li_login_entered' = TRUE
  /\ UNCHANGED << li_up, li_browser, li_context, li_page, li_file, li_open,
                  li_world, li_arrived, li_inflight, li_bodies, li_shutdown >>
  /\ UNCHANGED li_health

\* _save_session, lines 121-137: the context's cookies are written; a
\* failure is printed and swallowed.
save_session(file, auth, works) ==
  IF works THEN (IF auth THEN "valid" ELSE "stale") ELSE file

\* initialize line 68, then the rest of app.add_connection up to its next await.
LI_Save(r) ==
  /\ li_req[r].pc = "save"
  /\ \E ok \in BOOLEAN :
       li_file' = save_session(li_file, li_auth, ok /\ Alive(li_context))
  /\ li_req' = [li_req EXCEPT ![r] = Dispatch(Op(@, "save"), li_is_logged_in)]
  /\ UNCHANGED << li_up, li_browser, li_context, li_page, li_is_logged_in, li_open,
                  li_url, li_dom, li_auth, li_world, li_arrived,
                  li_inflight, li_bodies, li_login_entered, li_checkpointed, li_shutdown >>
  /\ UNCHANGED li_health

\* ------------------------------------------- LinkedIn: connect by profile URL
\* A loop that keeps going after a match and ends on the last selector that
\* matches.
RECURSIVE ClickLoop_Last(_, _, _, _, _)
ClickLoop_Last(dom, sels, i, raising, attempts) ==
  IF i > Len(sels) THEN [at |-> 0, attempts |-> attempts]
  ELSE LET rest == ClickLoop_Last(dom, sels, i + 1, raising, attempts)
       IN IF rest.at # 0 THEN rest
          ELSE IF wait_for_selector(dom, sels[i]) /\ i \notin raising
            THEN [at |-> i, attempts |-> attempts + 1]
          ELSE rest

\* The selector loops of lines 298-309 and 330-340: every selector is waited
\* for in turn; a click that raises is swallowed by the bare except and the
\* loop goes on with the next selector.  raising is the set of list positions
\* whose click raises.  Returns the position clicked (0: none) and the number
\* of click attempts.
RECURSIVE ClickLoop(_, _, _, _, _)
ClickLoop(dom, sels, i, raising, attempts) ==
  IF i > Len(sels) THEN [at |-> 0, attempts |-> attempts]
  ELSE IF ~wait_for_selector(dom, sels[i]) THEN ClickLoop(dom, sels, i + 1, raising, attempts)
  ELSE IF i \in raising THEN ClickLoop(dom, sels, i + 1, raising, attempts + 1)
  ELSE [at |-> i, attempts |-> attempts + 1]

\* History of a handler: the selector whose element a loop ended on.
Use(q, sels, at) == IF at = 0 THEN q ELSE [q EXCEPT !.used = Append(@, sels[at])]

\* A click of the loop raised and its bare except went on to the next selector.
Caught(res) == res.attempts > (IF res.at # 0 THEN 1 ELSE 0)

RECURSIVE Ops(_, _, _)
Ops(q, o, n) == IF n = 0 THEN q ELSE Ops(Op(q, o), o, n - 1)

\* The positions whose click the environment may make raise: none, or the
\* first one that matches.
Raising(dom, sels) ==
  {{}} \cup (IF FirstMatch(dom, sels) # 0 THEN {{FirstMatch(dom, sels)}} ELSE {})

\* The site's answer to a click on Connect: the confirmation modal, or, on a
\* profile without one, the invitation itself.
Invited(w) == IF w.accepts THEN [w EXCEPT !.status = "pending"] ELSE w

\* lines 281-287.
LI_UrlGoto(r) ==
  /\ li_req[r].pc = "url_goto"
  /\ \E navok \in BOOLEAN :
       IF navok /\ Alive(li_page)
       THEN /\ li_url' = PROFILE
            /\ li_dom' = ProfileDOM(li_world, li_auth)
            /\ li_req' = [li_req EXCEPT ![r] = [Op(@, "goto:profile") EXCEPT !.pc = "url_connect"]]
       ELSE /\ li_req' = [li_req EXCEPT ![r] =
                 error_result(Escape(Op(@, "goto:profile")), "Error accessing profile: ", @.profile_url)]
            /\ UNCHANGED << li_url, li_dom >>
  /\ UNCHANGED << li_up, li_browser, li_context, li_page, li_is_logged_in, li_file,
                  li_open, li_auth, li_world, li_arrived, li_inflight, li_bodies,
                  li_login_entered, li_checkpointed, li_shutdown >>
  /\ UNCHANGED li_health

\* A verdict that does not look for the Message control.
not_clicked_result_Restricted(q, dom, url) ==
  Respond(q, 200, FALSE, "Connect button not found - profile may be restricted", "", url)

\* lines 311-315: the verdict when no Connect control was clicked.
not_clicked_result(q, dom, url) ==
  IF query_selector(dom, MESSAGE_BUTTON)
    THEN Respond(q, 200, FALSE, "Already connected to this person", "", url)
    ELSE Respond(q, 200, FALSE, "Connect button not found - profile may be restricted", "", url)

\* lines 298-321.
LI_UrlConnect(r) ==
  /\ li_req[r].pc = "url_connect"
  /\ IF ~Alive(li_page)
     THEN /\ li_req' = [li_req EXCEPT ![r] =
               error_result(Escape(@), "Error accessing profile: ", @.profile_url)]
          /\ UNCHANGED << li_dom, li_world >>
     ELSE \E raising \in Raising(li_dom, connect_selectors) :
       LET res == ClickLoop(li_dom, connect_selectors, 1, raising, 0)
           q == Use(Swallow(Ops(li_req[r], "click:connect", res.attempts), Caught(res)),
                  connect_selectors, res.at)
       IN IF res.at = 0
          THEN /\ li_req' = [li_req EXCEPT ![r] = not_clicked_result(q, li_dom, q.profile_url)]
               /\ UNCHANGED << li_dom, li_world >>
          ELSE /\ li_req' = [li_req EXCEPT ![r] = [q EXCEPT !.pc = "url_send"]]
               /\ li_world' = IF li_world.modal THEN li_world ELSE Invited(li_world)
               /\ li_dom' = IF li_world.modal THEN li_dom \cup ModalDOM(li_world)
                            ELSE ProfileDOM(Invited(li_world), li_auth)
  /\ UNCHANGED << li_up, li_browser, li_context, li_page, li_is_logged_in, li_file,
                  li_open, li_url, li_auth, li_arrived, li_inflight, li_bodies,
                  li_login_entered, li_checkpointed, li_shutdown >>
  /\ UNCHANGED li_health

\* A send loop whose click on Send is not taken for the request being sent.
send_result_NeverSent(q, clicked, url) ==
  Respond(q, 200, FALSE, "Could not send connection request", "", url)

\* lines 330-342, on what the send loop found.
send_result(q, clicked, url) ==
  IF clicked THEN Respond(q, 200, TRUE, "Connection request sent successfully", "", url)
  ELSE Respond(q, 200, FALSE, "Could not send connection request", "", url)

\* lines 323-342.
LI_UrlSend(r) ==
  /\ li_req[r].pc = "url_send"
  /\ \E raising \in Raising(li_dom, send_selectors) :
       LET res == IF Alive(li_page) THEN ClickLoop(li_dom, send_selectors, 1, raising, 0)
                  ELSE [at |-> 0, attempts |-> 0]
           q == Use(Swallow(Ops(li_req[r], "click:send", res.attempts), Caught(res)),
                  send_selectors, res.at)
       IN /\ li_req' = [li_req EXCEPT ![r] = send_result(q, res.at # 0, q.profile_url)]
          /\ IF res.at # 0
               THEN /\ li_world' = Invited(li_world)
                    /\ li_dom' = ProfileDOM(Invited(li_world), li_auth)
               ELSE UNCHANGED << li_dom, li_world >>
  /\ UNCHANGED << li_up, li_browser, li_context, li_page, li_is_logged_in, li_file,
                  li_open, li_url, li_auth, li_arrived, li_inflight, li_bodies,
                  li_login_entered, li_checkpointed, li_shutdown >>
  /\ UNCHANGED li_health


\* --------------------------------------------- LinkedIn: connect by search
\* _add_by_search, lines 360-365, 415-423, 545-550, 577-582 and 597-603.
search_selectors ==
  << "input[placeholder*=\"Search\"]",
     ".search-global-typeahead__input",
     "input[role=\"combobox\"]",
     "#global-nav-search .search-global-typeahead__input" >>

result_selectors ==
  << ".entity-result__title-text a",
     ".search-result__title-text a",
     "[data-test-app-aware-link] .entity-result__title-text a",
     ".reusable-search-simple-insight a",
     ".entity-result__content a[href*=\"/in/\"]",
     ".search-result-card__title a",
     "a[href*=\"/in/\"][data-test-app-aware-link]" >>

\* Strategies 1 to 3 (lines 464-534) look for a visible button in the page:
\* by its text, by its aria-label, then by six class-based selectors.
BUTTON_WITH_CONNECT_TEXT == "button / 'Connect' in text_content"

listing_connect_selectors ==
  << BUTTON_WITH_CONNECT_TEXT,
     "button[aria-label*=\"Connect\"]",
     ".artdeco-button:has-text(\"Connect\")",
     "button.artdeco-button:has-text(\"Connect\")",
     ".entity-result button:has-text(\"Connect\")",
     ".search-result button:has-text(\"Connect\")",
     "button[data-test-app-aware-link]:has-text(\"Connect\")",
     "button.artdeco-button--2:has-text(\"Connect\")" >>

\* The list position at which each strategy starts.
StrategyAt(k) == IF k = 1 THEN 1 ELSE IF k = 2 THEN 2 ELSE 3

profile_connect_selectors ==
  << "button:has-text(\"Connect\")",
     "button[aria-label*=\"Connect\"]",
     ".pvs-profile-actions button:has-text(\"Connect\")",
     ".pv-s-profile-actions button:has-text(\"Connect\")" >>

modal_selectors ==
  << "[data-test-modal-container]", ".artdeco-modal", ".send-invite", "[role=\"dialog\"]" >>

modal_send_selectors ==
  << "button:has-text(\"Send\")",
     "button[aria-label*=\"Send\"]",
     "button.ml1:has-text(\"Send\")",
     "button[data-test-modal-primary-action]",
     "button.artdeco-button--primary:has-text(\"Send\")" >>

\* The people-search result page as served to the context.
ResultsDOM(w, auth) ==
  IF ~auth THEN {}
  ELSE (IF w.result = "none" THEN {} ELSE {El(result_selectors[1], w.result # "hidden")})
       \cup (IF w.listed = 0 \/ w.status # "stranger" THEN {}
             ELSE {El(listing_connect_selectors[StrategyAt(w.listed)], TRUE)})

\* href of the first result link.
Href(w) == IF w.result = "abs" THEN PROFILE ELSE PROFILE_REL

\* A result link whose href is not kept for the result.
resolve_href_Dropped(href) == None

\* lines 452-454.
resolve_href(href) == IF startswith_slash(href) THEN PROFILE ELSE href

\* lines 353-412: the feed is opened when the page is not on the site, the
\* query is typed into the search box (or the search URL opened when there is
\* none), and the page ends on the result list.
LI_SearchNav(r) ==
  /\ li_req[r].pc = "search_nav"
  /\ \E navok \in BOOLEAN :
       IF navok /\ Alive(li_page)
       THEN /\ li_url' = SEARCH
            /\ li_dom' = ResultsDOM(li_world, li_auth)
            /\ li_req' = [li_req EXCEPT ![r] =
                 [Op(IF UrlHas(li_url, "linkedin.com") THEN @ ELSE Op(@, "goto:feed"),
                     "goto:search") EXCEPT !.pc = "search_results"]]
       ELSE /\ li_req' = [li_req EXCEPT ![r] =
                 error_result(Escape(Op(@, "goto:search")), "Search error: ", None)]
            /\ UNCHANGED << li_url, li_dom >>
  /\ UNCHANGED << li_up, li_browser, li_context, li_page, li_is_logged_in, li_file,
                  li_open, li_auth, li_world, li_arrived, li_inflight, li_bodies,
                  li_login_entered, li_checkpointed, li_shutdown >>
  /\ UNCHANGED li_health

\* lines 425-534: the first result link is looked up, then strategies 1 to 3
\* click a visible Connect button of the result list.
LI_SearchResults(r) ==
  /\ li_req[r].pc = "search_results"
  /\ IF ~Alive(li_page)
     THEN /\ li_req' = [li_req EXCEPT ![r] =
               Respond(@, 200, FALSE, "No profile results found for ", "", None)]
          /\ UNCHANGED << li_dom, li_world >>
     ELSE IF FirstMatch(li_dom, result_selectors) = 0
     THEN /\ li_req' = [li_req EXCEPT ![r] =
               Respond(@, 200, FALSE, "No profile results found for ", "", None)]
          /\ UNCHANGED << li_dom, li_world >>
     ELSE \E raising \in Raising(li_dom, listing_connect_selectors) :
       LET res == ClickLoop(li_dom, listing_connect_selectors, 1, raising, 0)
           q == [Use(Swallow(Ops(li_req[r], "click:connect", res.attempts), Caught(res)),
                     listing_connect_selectors, res.at)
                   EXCEPT !.url = resolve_href(Href(li_world))]
       IN IF res.at = 0
          THEN /\ li_req' = [li_req EXCEPT ![r] = [q EXCEPT !.pc = "search_profile"]]
               /\ UNCHANGED << li_dom, li_world >>
          ELSE /\ li_req' = [li_req EXCEPT ![r] = [q EXCEPT !.pc = "search_modal"]]
               /\ li_world' = IF li_world.modal THEN li_world ELSE Invited(li_world)
               /\ li_dom' = IF li_world.modal THEN li_dom \cup ModalDOM(li_world)
                            ELSE ResultsDOM(Invited(li_world), li_auth)
  /\ UNCHANGED << li_up, li_browser, li_context, li_page, li_is_logged_in, li_file,
                  li_open, li_url, li_auth, li_arrived, li_inflight, li_bodies,
                  li_login_entered, li_checkpointed, li_shutdown >>
  /\ UNCHANGED li_health

\* lines 537-567 and 634-649: strategy 4 opens the profile through the result
\* link and looks for Connect there; when nothing was clicked the verdict of
\* lines 646-649 is returned.
LI_SearchProfile(r) ==
  /\ li_req[r].pc = "search_profile"
  /\ \E linkok \in BOOLEAN :
       LET opened == linkok /\ Alive(li_page)
           dom == IF opened THEN ProfileDOM(li_world, li_auth) ELSE li_dom
           q0 == Swallow(Op(li_req[r], "click:result"), ~opened)
       IN \E raising \in Raising(dom, profile_connect_selectors) :
            LET res == IF opened THEN ClickLoop(dom, profile_connect_selectors, 1, raising, 0)
                       ELSE [at |-> 0, attempts |-> 0]
                q == Use(Swallow(Ops(q0, "click:connect", res.attempts), Caught(res)),
                         profile_connect_selectors, res.at)
            IN /\ li_url' = IF opened THEN PROFILE ELSE li_url
               /\ IF res.at = 0
                  THEN /\ li_req' = [li_req EXCEPT ![r] =
                            IF Alive(li_page) THEN not_clicked_result(q, dom, q.url)
                            ELSE error_result(Escape(q), "Search error: ", None)]
                       /\ li_dom' = dom
                       /\ UNCHANGED li_world
                  ELSE /\ li_req' = [li_req EXCEPT ![r] = [q EXCEPT !.pc = "search_modal"]]
                       /\ li_world' = IF li_world.modal THEN li_world ELSE Invited(li_world)
                       /\ li_dom' = IF li_world.modal THEN dom \cup ModalDOM(li_world)
                                    ELSE ProfileDOM(Invited(li_world), li_auth)
  /\ UNCHANGED << li_up, li_browser, li_context, li_page, li_is_logged_in, li_file,
                  li_open, li_auth, li_arrived, li_inflight, li_bodies,
                  li_login_entered, li_checkpointed, li_shutdown >>
  /\ UNCHANGED li_health

\* lines 595-626, on whether a modal and a Send control were found.
modal_result(q, modal_found, send_clicked, url) ==
  IF ~modal_found THEN Respond(q, 200, TRUE, "Connection request sent (no modal needed)", "", url)
  ELSE IF send_clicked THEN Respond(q, 200, TRUE, "Connection request sent successfully", "", url)
  ELSE Respond(q, 200, FALSE, "Could not find Send button in modal", "", url)

\* lines 569-630.
LI_SearchModal(r) ==
  /\ li_req[r].pc = "search_modal"
  /\ \E raising \in Raising(li_dom, modal_send_selectors) :
       LET found == Alive(li_page) /\ FirstMatch(li_dom, modal_selectors) # 0
           res == IF found THEN ClickLoop(li_dom, modal_send_selectors, 1, raising, 0)
                  ELSE [at |-> 0, attempts |-> 0]
           q == Use(Swallow(Ops(li_req[r], "click:send", res.attempts), Caught(res)),
                  modal_send_selectors, res.at)
       IN /\ li_req' = [li_req EXCEPT ![r] = modal_result(q, found, res.at # 0, q.url)]
          /\ IF res.at # 0
               THEN /\ li_world' = Invited(li_world)
                    /\ li_dom' = ProfileDOM(Invited(li_world), li_auth)
               ELSE UNCHANGED << li_dom, li_world >>
  /\ UNCHANGED << li_up, li_browser, li_context, li_page, li_is_logged_in, li_file,
                  li_open, li_url, li_auth, li_arrived, li_inflight, li_bodies,
                  li_login_entered, li_checkpointed, li_shutdown >>
  /\ UNCHANGED li_health


\* ------------------------------------------------------ LinkedIn: shutdown
\* _cleanup_browser, lines 654-684: what it closes, in order.
cleanup_browser(page, context, browser) ==
  (IF page # 0 THEN << "close_page" >> ELSE << >>)
  \o (IF context # 0 THEN << "close_context" >> ELSE << >>)
  \o (IF browser # 0 THEN << "close_browser", "stop_playwright" >> ELSE << >>)

\* A cleanup that releases the browser first and saves afterwards.
cleanup_CloseFirst(page, context, browser, logged, saveok) ==
  cleanup_browser(page, context, browser)
  \o (IF context # 0 /\ logged
        THEN << IF saveok THEN "save_session" ELSE "save_session_failed" >>
        ELSE << >>)

\* cleanup, lines 686-696: the session is saved when there is a context and
\* the instance is logged in, a failure of the save is printed, and the
\* browser is cleaned up in every case.
cleanup(page, context, browser, logged, saveok) ==
  (IF context # 0 /\ logged
     THEN << IF saveok THEN "save_session" ELSE "save_session_failed" >>
     ELSE << >>)
  \o cleanup_browser(page, context, browser)

\* lifespan's exit (app.py 38-41) or test_direct's signal handler and finally
\* block: cleanup() runs once no handler is in flight.
LI_Shutdown ==
  /\ li_up
  /\ \A r \in Reqs : li_req[r].pc \in {"idle", "done"}
  /\ \E ok \in BOOLEAN :
       LET saveok == ok /\ Alive(li_context)
           log == cleanup(li_page, li_context, li_browser, li_is_logged_in, saveok)
       IN /\ li_shutdown' = log
          /\ li_file' = IF "save_session" \in Range(log)
                          THEN save_session(li_file, li_auth, TRUE) ELSE li_file
          /\ li_open' = li_open \ ( (IF "close_browser" \in Range(log) THEN {li_browser} ELSE {})
                                    \cup (IF "close_page" \in Range(log) THEN {li_page} ELSE {}) )
          /\ li_page' = IF "close_page" \in Range(log) THEN 0 ELSE li_page
          /\ li_context' = IF "close_context" \in Range(log) THEN 0 ELSE li_context
          /\ li_browser' = IF "close_browser" \in Range(log) THEN 0 ELSE li_browser
  /\ li_is_logged_in' = FALSE
  /\ li_up' = FALSE
  /\ UNCHANGED << li_url, li_dom, li_auth, li_world, li_req, li_arrived,
                  li_inflight, li_bodies, li_login_entered, li_checkpointed >>
  /\ li_health' = << >>

\* app.health_check, lines 89-101: the body of the answer.
li_health_check(logged) == [status |-> "healthy", linkedin_connected |-> logged]

\* GET /health while no handler is in flight and the client has a request
\* left to send; the answer is delivered before the next request or the
\* shutdown.
LI_Health ==
  /\ li_up
  /\ \A r \in Reqs : li_req[r].pc \in {"idle", "done"}
  /\ li_arrived < MaxRequests
  /\ li_health = << >>
  /\ li_health' = << li_health_check(li_is_logged_in) >>
  /\ UNCHANGED << li_up, li_browser, li_context, li_page, li_is_logged_in, li_file,
                  li_open, li_url, li_dom, li_auth, li_world, li_req, li_arrived,
                  li_inflight, li_bodies, li_login_entered, li_checkpointed, li_shutdown >>

\* The Firefox process launched at lines 99-102 ends without the worker's
\* doing (crash, kill, window closed) while no handler is in flight and a
\* request is still to come: the handles and the is_logged_in flag keep
\* their values.
LI_BrowserClosed ==
  /\ li_up
  /\ li_is_logged_in
  /\ Alive(li_browser)
  /\ \A r \in Reqs : li_req[r].pc \in {"idle", "done"}
  /\ li_arrived < MaxRequests
  /\ li_open' = li_open \ {li_browser, li_context, li_page}
  /\ UNCHANGED << li_up, li_browser, li_context, li_page, li_is_logged_in, li_file,
                  li_url, li_dom, li_auth, li_world, li_req, li_arrived, li_inflight,
                  li_bodies, li_login_entered, li_checkpointed, li_shutdown >>
  /\ UNCHANGED li_health

\* ------------------------------------------------------- Twitter: the site
TW_HOME == "https://twitter.com/home"
TW_LOGIN == "https://twitter.com/i/flow/login"
TW_PROFILE == "https://twitter.com/jack"
TW_ROOT == "https://twitter.com/"
TWEET == "https://twitter.com/jack/status/20"
USERNAME == "jack"
REPLY == "Nice!"

TwUrlWords(u) ==
  CASE u = TW_LOGIN -> {"twitter.com", "login"}
    [] u \in {TW_HOME, TW_PROFILE, TW_ROOT, TWEET} -> {"twitter.com"}
    [] OTHER -> {}

\* _check_login_status line 138.
on_login_page(url) == "login" \in TwUrlWords(url) \/ "signin" \in TwUrlWords(url)

TW_NAV == "nav[aria-label=\"Primary\"]"
UNFOLLOW == "div[data-testid=\"unfollow\"], button[data-testid=\"unfollow\"]"
UNLIKE == "div[data-testid=\"unlike\"]"
RETWEET_CONFIRM == "div[data-testid=\"retweetConfirm\"]"
TWEET_BUTTON == "div[data-testid=\"tweetButton\"]"

\* lines 251-256, 297-301, 345-349, 387-391 and 410-414.
follow_selectors ==
  << "div[data-testid=\"follow\"]",
     "button[data-testid=\"follow\"]",
     "div[role=\"button\"]:has-text(\"Follow\")",
     "button:has-text(\"Follow\")" >>

like_selectors ==
  << "div[data-testid=\"like\"]",
     "button[data-testid=\"like\"]",
     "div[role=\"button\"][aria-label*=\"Like\"]" >>

retweet_selectors ==
  << "div[data-testid=\"retweet\"]",
     "button[data-testid=\"retweet\"]",
     "div[role=\"button\"][aria-label*=\"Retweet\"]" >>

reply_selectors ==
  << "div[data-testid=\"reply\"]",
     "button[data-testid=\"reply\"]",
     "div[role=\"button\"][aria-label*=\"Reply\"]" >>

compose_selectors ==
  << "div[data-testid=\"tweetTextarea_0\"]",
     "div[role=\"textbox\"][aria-label*=\"reply\"]",
     "div[contenteditable=\"true\"][aria-label*=\"reply\"]" >>

\* An element with its inner text.
TEl(sel, vis, text) == [sel |-> sel, visible |-> vis, text |-> text]

\* The target account and tweet as the site holds them, and how the pages
\* render: for each control the index of the selector of its list that it
\* answers to (0: none).  A followed account shows one button, "Following",
\* with the unfollow test id, a liked tweet one with the unlike test id, a
\* retweeted tweet one labelled "Retweeted"; followingAs, likedAs and
\* retweetedAs are the selectors those buttons answer to.  confirm: the
\* retweet menu shows its confirm item.  carries: the site carries the final
\* click out, so that the completed state shows afterwards.  hiddenUnlike:
\* the page of a tweet that is not liked keeps a hidden unlike button.
TwBase ==
  [following |-> FALSE, follow |-> 1, followingAs |-> 4,
   liked |-> FALSE, like |-> 1, likedAs |-> 3,
   retweeted |-> FALSE, retweet |-> 1, retweetedAs |-> 3, confirm |-> TRUE,
   replied |-> FALSE, reply |-> 1, compose |-> 1, tweetButton |-> TRUE,
   carries |-> TRUE, hiddenUnlike |-> FALSE]

TW_Fixtures ==
  { TwBase,
    [TwBase EXCEPT !.carries = FALSE],
    [TwBase EXCEPT !.following = TRUE, !.liked = TRUE, !.retweeted = TRUE],
    [TwBase EXCEPT !.following = TRUE, !.followingAs = 3, !.liked = TRUE, !.likedAs = 0],
    [TwBase EXCEPT !.follow = 3, !.like = 3, !.retweet = 3, !.reply = 3, !.compose = 2],
    [TwBase EXCEPT !.follow = 0, !.like = 0, !.retweet = 0, !.reply = 0],
    [TwBase EXCEPT !.confirm = FALSE, !.compose = 0],
    [TwBase EXCEPT !.tweetButton = FALSE, !.like = 2, !.follow = 4],
    [TwBase EXCEPT !.hiddenUnlike = TRUE] }

TwControl(sels, i, text) == IF i = 0 THEN {} ELSE {TEl(sels[i], TRUE, text)}

TwProfileDOM(w, auth) ==
  IF ~auth THEN {}
  ELSE IF w.following
    THEN {TEl(UNFOLLOW, TRUE, "Following")}
         \cup TwControl(follow_selectors, w.followingAs, "Following")
    ELSE TwControl(follow_selectors, w.follow, "Follow")

TwTweetDOM(w, auth) ==
  IF ~auth THEN {}
  ELSE (IF w.liked
          THEN {TEl(UNLIKE, TRUE, "")} \cup TwControl(like_selectors, w.likedAs, "")
          ELSE TwControl(like_selectors, w.like, "")
               \cup (IF w.hiddenUnlike THEN {TEl(UNLIKE, FALSE, "")} ELSE {}))
       \cup (IF w.retweeted
               THEN TwControl(retweet_selectors, w.retweetedAs, "")
               ELSE TwControl(retweet_selectors, w.retweet, ""))
       \cup TwControl(reply_selectors, w.reply, "")

TwHomeLanding(auth) ==
  IF auth THEN [url |-> TW_HOME, dom |-> {TEl(TW_NAV, TRUE, "")}]
  ELSE [url |-> TW_LOGIN, dom |-> {}]

\* ----------------------------------------------------------- Twitter: state
VARIABLES
  tw_up,             \* the app runs
  tw_browser,        \* TwitterAutomationAPI.browser: a browser id, 0 for None
  tw_context,        \* .context
  tw_page,           \* .page
  tw_is_initialized, \* .is_initialized
  tw_is_logged_in,   \* .is_logged_in
  tw_credentials,    \* TWITTER_EMAIL and TWITTER_PASSWORD are set
  tw_file,           \* twitter_session.json: "none", "valid", "stale", "malformed"
  tw_open,           \* the browser processes that are running
  tw_url,            \* URL of the page .page refers to
  tw_dom,            \* its DOM
  tw_auth,           \* the context carries cookies the site accepts
  tw_world,          \* the target account and tweet as the site holds them
  tw_req,            \* the handlers, by slot
  tw_arrived,        \* requests accepted so far
  tw_inflight,       \* how many handlers the client lets run at once
  tw_bodies,         \* the requests the client sends
  tw_shutdown,       \* what the shutdown handler did, in order
  tw_health          \* the answer to the last GET /health, until it is delivered

twVars == << tw_up, tw_browser, tw_context, tw_page, tw_is_initialized,
             tw_is_logged_in, tw_credentials, tw_file, tw_open, tw_url, tw_dom,
             tw_auth, tw_world, tw_req, tw_arrived, tw_inflight, tw_bodies,
             tw_shutdown, tw_health >>

\* ------------------------------------------------------------ orchestrator
VARIABLES
  or_up,                   \* the orchestrator app runs
  or_clock,                \* datetime.now(), in microseconds since the app started
  last_whatsapp_send_time, \* the module global of that name
  or_files,                \* data/contact_<id>.json, as [id, seq, json]
  or_req,                  \* the /api/contact handlers, by slot
  or_arrived,              \* contacts accepted so far
  or_inflight,             \* how many handlers the client lets run at once
  or_contacts,             \* the contacts the client posts
  or_ids,                  \* the contact ids generated, in order
  or_sends                 \* when each POST to the bridge's /api/send started

orVars == << or_up, or_clock, last_whatsapp_send_time, or_files, or_req,
             or_arrived, or_inflight, or_contacts, or_ids, or_sends >>

vars == << liVars, twVars, orVars >>

TwIdleReq ==
  [pc |-> "idle", endpoint |-> None, username |-> None, action |-> None,
   tweet_url |-> None, message |-> None,
   http |-> 0, success |-> FALSE, msg |-> "", exc |-> "", url |-> None,
   ops |-> << >>, checked |-> "none", login |-> "none", observed |-> FALSE,
   snapshot |-> "none", already |-> FALSE, escaped |-> FALSE, swallowed |-> FALSE,
   used |-> << >>]

TwBody(ep, u, a, t, m) ==
  [endpoint |-> ep, username |-> u, action |-> a, tweet_url |-> t, message |-> m]

TW_Bodies ==
  { TwBody("/api/follow", u, None, None, None) : u \in {None, USERNAME} }
  \cup { TwBody(ep, None, None, t, None) : ep \in {"/api/like", "/api/retweet"}, t \in {None, TWEET} }
  \cup { TwBody("/api/reply", None, None, t, m) : t \in {None, TWEET}, m \in {None, REPLY} }
  \cup { TwBody("/api/execute", USERNAME, a, t, None) :
           a \in {"follow", "like", "retweet", "reply", "block"}, t \in {None, TWEET} }
  \cup { TwBody("/api/execute", USERNAME, "reply", TWEET, REPLY),
         TwBody("/api/execute", "", "follow", None, None),
         TwBody("/api/execute", None, "follow", None, None) }

\* __init__, lines 57-76: nothing is launched when the module is loaded.
TW_InitWith(up, n, files, fixtures, bodies, creds) ==
  /\ tw_up = up
  /\ tw_browser = 0 /\ tw_context = 0 /\ tw_page = 0
  /\ tw_is_initialized = FALSE
  /\ tw_is_logged_in = FALSE
  /\ tw_credentials \in creds
  /\ tw_file \in files
  /\ tw_open = {}
  /\ tw_url = BLANK /\ tw_dom = {}
  /\ tw_auth = FALSE
  /\ tw_world \in fixtures
  /\ tw_req = [r \in Reqs |-> TwIdleReq]
  /\ tw_arrived = 0
  /\ tw_inflight = n
  /\ tw_bodies = bodies
  /\ tw_shutdown = << >>
  /\ tw_health = << >>

\* -------------------------------------------------------- Twitter: handlers
TwAlive(h) == h # 0 /\ h \in tw_open

TwDelivered(req) == [q \in Reqs |-> IF req[q].pc = "done" THEN TwIdleReq ELSE req[q]]

\* str(e) of the JSONDecodeError json.load raises at line 106.
JSON_ERROR == "Expecting value: line 1 column 1 (char 0)"

LOGIN_FAILED == "Failed to log into Twitter. Please check credentials or log in manually."

\* What the page shows at a URL.
TwRender(url, w, auth) ==
  IF url = TW_PROFILE THEN TwProfileDOM(w, auth)
  ELSE IF url = TWEET THEN TwTweetDOM(w, auth)
  ELSE TwHomeLanding(auth).dom

\* execute_action lines 465-533: the branch on the action, with the
\* validation of its fields; a valid action goes on to its navigation.
TwDispatch(q) ==
  IF q.action = "follow" THEN [q EXCEPT !.pc = "goto"]
  ELSE IF q.action = "like"
    THEN IF ~Truthy(q.tweet_url)
           THEN Respond(q, 200, FALSE, "Tweet URL is required for like action", "", None)
           ELSE [q EXCEPT !.pc = "goto"]
  ELSE IF q.action = "retweet"
    THEN IF ~Truthy(q.tweet_url)
           THEN Respond(q, 200, FALSE, "Tweet URL is required for retweet action", "", None)
           ELSE [q EXCEPT !.pc = "goto"]
  ELSE IF q.action = "reply"
    THEN IF ~Truthy(q.tweet_url) \/ ~Truthy(q.message)
           THEN Respond(q, 200, FALSE, "Tweet URL and message are required for reply action", "", None)
           ELSE [q EXCEPT !.pc = "goto"]
  ELSE Respond(q, 200, FALSE, "Unknown action: ", "", None)

\* execute_action line 449 entering _initialize_browser (lines 80-81).
TwEnter(q, initialized) ==
  IF initialized THEN [q EXCEPT !.pc = "check"] ELSE [q EXCEPT !.pc = "init"]

\* The endpoints, lines 562-607: the dedicated ones validate their fields and
\* build the TwitterRequest; /api/execute takes the body as the request, and
\* the model class (lines 41-45) requires username and action.
endpoint(q, initialized) ==
  IF q.endpoint = "/api/follow"
    THEN IF ~Truthy(q.username)
           THEN Respond(q, 400, FALSE, "Username is required", "", None)
           ELSE TwEnter([q EXCEPT !.action = "follow"], initialized)
  ELSE IF q.endpoint \in {"/api/like", "/api/retweet"}
    THEN IF ~Truthy(q.tweet_url)
           THEN Respond(q, 400, FALSE, "Tweet URL is required", "", None)
           ELSE TwEnter([q EXCEPT !.username = "",
                                  !.action = IF q.endpoint = "/api/like" THEN "like" ELSE "retweet"],
                        initialized)
  ELSE IF q.endpoint = "/api/reply"
    THEN IF ~Truthy(q.tweet_url) \/ ~Truthy(q.message)
           THEN Respond(q, 400, FALSE, "Tweet URL and message are required", "", None)
           ELSE TwEnter([q EXCEPT !.username = "", !.action = "reply"], initialized)
  ELSE IF q.username = None \/ q.action = None
    THEN Respond(q, 422, FALSE, "Field required", "", None)
  ELSE TwEnter(q, initialized)

\* A POST is accepted and its handler runs to its first await.
TW_Arrive(r) ==
  /\ tw_up
  /\ r = FreeSlot(tw_req)
  /\ tw_arrived < MaxRequests
  /\ Cardinality(Busy(tw_req)) < tw_inflight
  /\ \E b \in tw_bodies :
       LET q == [TwIdleReq EXCEPT !.pc = "start", !.endpoint = b.endpoint,
                                  !.username = b.username, !.action = b.action,
                                  !.tweet_url = b.tweet_url, !.message = b.message]
       IN tw_req' = [TwDelivered(tw_req) EXCEPT ![r] = endpoint(q, tw_is_initialized)]
  /\ tw_arrived' = tw_arrived + 1
  /\ UNCHANGED << tw_up, tw_browser, tw_context, tw_page, tw_is_initialized,
                  tw_is_logged_in, tw_credentials, tw_file, tw_open, tw_url, tw_dom,
                  tw_auth, tw_world, tw_inflight, tw_bodies, tw_shutdown >>
  /\ tw_health' = << >>

\* _initialize_browser, lines 83-118: launch, read the session file, create
\* the context and the page.  A launch that raises, or a session file that
\* json.load rejects, is re-raised into execute_action's handler (535-542);
\* in the second case the launched browser stays assigned and running.
TW_InitBrowser(r) ==
  /\ tw_req[r].pc = "init"
  /\ \E ok \in BOOLEAN :
       IF ~ok
       THEN /\ tw_req' = [tw_req EXCEPT ![r] =
                 Respond(Op(@, "launch"), 200, FALSE, "Error executing action: ", EXC, None)]
            /\ UNCHANGED << tw_browser, tw_context, tw_page, tw_is_initialized,
                            tw_open, tw_url, tw_dom, tw_auth >>
       ELSE IF tw_file = "malformed"
       THEN /\ tw_browser' = NewId(tw_open)
            /\ tw_open' = tw_open \cup {NewId(tw_open)}
            /\ tw_req' = [tw_req EXCEPT ![r] =
                 Respond(Op(@, "launch"), 200, FALSE, "Error executing action: ",
                         JSON_ERROR, None)]
            /\ UNCHANGED << tw_context, tw_page, tw_is_initialized, tw_url, tw_dom, tw_auth >>
       ELSE /\ tw_browser' = NewId(tw_open)
            /\ tw_context' = NewId(tw_open)
            /\ tw_page' = NewId(tw_open)
            /\ tw_open' = tw_open \cup {NewId(tw_open)}
            /\ tw_auth' = (tw_file = "valid")
            /\ tw_url' = BLANK /\ tw_dom' = {}
            /\ tw_is_initialized' = TRUE
            /\ tw_req' = [tw_req EXCEPT ![r] =
                 [Op(@, "launch") EXCEPT !.pc = "check", !.snapshot = tw_file]]
  /\ UNCHANGED << tw_up, tw_is_logged_in, tw_credentials, tw_file, tw_world,
                  tw_arrived, tw_inflight, tw_bodies, tw_shutdown >>
  /\ UNCHANGED tw_health

\* _check_login_status, lines 131-152, as a function of the context's cookies
\* and of whether the navigation to the home page works.
check_login_status(logged, url, dom, auth, navok) ==
  IF ~navok
    THEN [logged |-> logged, url |-> url, dom |-> dom, result |-> FALSE, branch |-> "navfault"]
  ELSE LET l == TwHomeLanding(auth)
       IN IF on_login_page(l.url)
            THEN [logged |-> logged, url |-> l.url, dom |-> l.dom, result |-> FALSE,
                  branch |-> "loginpage"]
          ELSE IF wait_for_selector(l.dom, TW_NAV)
            THEN [logged |-> TRUE, url |-> l.url, dom |-> l.dom, result |-> TRUE,
                  branch |-> "loggedin"]
          ELSE [logged |-> FALSE, url |-> l.url, dom |-> l.dom, result |-> FALSE,
                branch |-> "nonav"]

\* execute_action lines 452-462: the check of the replayed session; when it
\* fails _login starts, and returns at once without credentials (156-158).
TW_CheckLogin(r) ==
  /\ tw_req[r].pc = "check"
  /\ \E navok \in BOOLEAN :
       LET c == check_login_status(tw_is_logged_in, tw_url, tw_dom, tw_auth,
                                   navok /\ TwAlive(tw_page))
           q == [Op(tw_req[r], "goto:home") EXCEPT
                   !.checked = c.branch]
       IN /\ tw_is_logged_in' = c.logged
          /\ tw_url' = c.url
          /\ tw_dom' = c.dom
          /\ tw_req' = [tw_req EXCEPT ![r] =
               IF c.result THEN TwDispatch(q)
               ELSE IF ~tw_credentials
                 THEN Respond([q EXCEPT !.login = "nocreds"], 200, FALSE, LOGIN_FAILED, "", None)
               ELSE [q EXCEPT !.pc = "login"]]
  /\ UNCHANGED << tw_up, tw_browser, tw_context, tw_page, tw_is_initialized,
                  tw_credentials, tw_file, tw_open, tw_auth, tw_world,
                  tw_arrived, tw_inflight, tw_bodies, tw_shutdown >>
  /\ UNCHANGED tw_health

\* What the site does with the submitted credentials.
TW_LoginOutcomes == {"accepted", "rejected", "raised"}

\* _login, lines 160-225, then execute_action up to its next await: the login
\* page, the two forms, the check of the home page and, on success, the save.
TW_Login(r) ==
  /\ tw_req[r].pc = "login"
  /\ \E o \in TW_LoginOutcomes, saveok \in BOOLEAN :
       /\ (o # "accepted" => saveok)
       /\ IF o = "raised" \/ ~TwAlive(tw_page)
          THEN /\ tw_req' = [tw_req EXCEPT ![r] =
                    Respond([Op(@, "goto:login") EXCEPT !.login = "raised"],
                            200, FALSE, LOGIN_FAILED, "", None)]
               /\ UNCHANGED << tw_is_logged_in, tw_url, tw_dom, tw_auth, tw_file >>
          ELSE LET auth == (o = "accepted")
                   c == check_login_status(tw_is_logged_in, TW_LOGIN, {}, auth, TRUE)
                   q == [tw_req[r] EXCEPT !.ops = @ \o << "goto:login", "submit", "goto:home" >>]
               IN /\ tw_auth' = auth
                  /\ tw_is_logged_in' = c.logged
                  /\ tw_url' = c.url
                  /\ tw_dom' = c.dom
                  /\ tw_file' = IF c.result THEN save_session(tw_file, auth, saveok /\ TwAlive(tw_context))
                                ELSE tw_file
                  /\ tw_req' = [tw_req EXCEPT ![r] =
                       IF c.result THEN TwDispatch([Op(q, "save") EXCEPT !.login = "ok"])
                       ELSE Respond([q EXCEPT !.login = "failed"], 200, FALSE, LOGIN_FAILED, "", None)]
  /\ UNCHANGED << tw_up, tw_browser, tw_context, tw_page, tw_is_initialized,
                  tw_credentials, tw_open, tw_world,
                  tw_arrived, tw_inflight, tw_bodies, tw_shutdown >>
  /\ UNCHANGED tw_health

\* The URL an action opens: line 244 for a follow, the tweet otherwise.
Target(q) ==
  IF q.action = "follow" THEN (IF q.username = USERNAME THEN TW_PROFILE ELSE TW_ROOT)
  ELSE q.tweet_url

\* The return of an action method, held until _save_session has run.
Pending(q, success, msg, exc) ==
  [q EXCEPT !.pc = "save", !.success = success, !.msg = msg, !.exc = exc,
            !.url = IF q.action = "follow" THEN Target(q) ELSE None]

ErrorOf(action) ==
  CASE action = "follow" -> "Error following @"
    [] action = "like" -> "Error liking tweet: "
    [] action = "retweet" -> "Error retweeting: "
    [] OTHER -> "Error replying to tweet: "

\* The site already holds what the action asks for.
Done(action, w) ==
  CASE action = "follow" -> w.following
    [] action = "like" -> w.liked
    [] action = "retweet" -> w.retweeted
    [] OTHER -> FALSE

\* The navigation that opens _follow_user (245), _like_tweet (293),
\* _retweet_tweet (341) and _reply_to_tweet (383).
TW_Goto(r) ==
  /\ tw_req[r].pc = "goto"
  /\ \E navok \in BOOLEAN :
       LET q == Op(tw_req[r], IF tw_req[r].action = "follow" THEN "goto:profile" ELSE "goto:tweet")
       IN IF navok /\ TwAlive(tw_page)
          THEN /\ tw_url' = Target(q)
               /\ tw_dom' = TwRender(Target(q), tw_world, tw_auth)
               /\ tw_req' = [tw_req EXCEPT ![r] =
                    [q EXCEPT !.pc = "click",
                              !.already = (Target(q) # TW_ROOT /\ Done(q.action, tw_world))]]
          ELSE /\ tw_req' = [tw_req EXCEPT ![r] = Pending(Escape(q), FALSE, ErrorOf(q.action), EXC)]
               /\ UNCHANGED << tw_url, tw_dom >>
  /\ UNCHANGED << tw_up, tw_browser, tw_context, tw_page, tw_is_initialized,
                  tw_is_logged_in, tw_credentials, tw_file, tw_open, tw_auth, tw_world,
                  tw_arrived, tw_inflight, tw_bodies, tw_shutdown >>
  /\ UNCHANGED tw_health

\* ElementHandle.inner_text() of the element a selector found.
inner_text(dom, sel) == (CHOOSE e \in dom : e.sel = sel /\ e.visible).text

\* _follow_user line 272.
already_following(button_text) == button_text \in {"Following", "Unfollow"}

SelectorsOf(action) ==
  CASE action = "follow" -> follow_selectors
    [] action = "like" -> like_selectors
    [] action = "retweet" -> retweet_selectors
    [] OTHER -> reply_selectors

NotFound(action) ==
  CASE action = "follow" -> "Could not find follow button for @"
    [] action = "like" -> "Could not find like button"
    [] action = "retweet" -> "Could not find retweet button"
    [] OTHER -> "Could not find reply button"

\* What the first click of an action does to the site and to the page.
Clicked(action, w, dom, url, auth) ==
  CASE action = "follow" ->
         LET w2 == IF w.carries THEN [w EXCEPT !.following = TRUE] ELSE w
         IN [world |-> w2, dom |-> TwRender(url, w2, auth)]
    [] action = "like" ->
         LET w2 == IF w.carries THEN [w EXCEPT !.liked = TRUE] ELSE w
         IN [world |-> w2, dom |-> TwRender(url, w2, auth)]
    [] action = "retweet" ->
         [world |-> w,
          dom |-> dom \cup (IF ~w.retweeted /\ w.confirm
                              THEN {TEl(RETWEET_CONFIRM, TRUE, "")} ELSE {})]
    [] OTHER ->
         [world |-> w,
          dom |-> dom \cup TwControl(compose_selectors, w.compose, "")
                      \cup (IF w.tweetButton THEN {TEl(TWEET_BUTTON, TRUE, "")} ELSE {})]

\* The selector loop, the already-done test and the click of the control:
\* lines 258-277, 303-325, 351-365 and 393-407.
TW_Click(r) ==
  /\ tw_req[r].pc = "click"
  /\ \E clickok \in BOOLEAN :
       LET q == Use(tw_req[r], SelectorsOf(tw_req[r].action),
                    FirstMatch(tw_dom, SelectorsOf(tw_req[r].action)))
           i == FirstMatch(tw_dom, SelectorsOf(tw_req[r].action))
           c == Clicked(q.action, tw_world, tw_dom, tw_url, tw_auth)
       IN IF i = 0
            THEN /\ clickok
                 /\ tw_req' = [tw_req EXCEPT ![r] = Pending(q, FALSE, NotFound(q.action), "")]
                 /\ UNCHANGED << tw_world, tw_dom >>
          ELSE IF q.action = "follow" /\ already_following(inner_text(tw_dom, follow_selectors[i]))
            THEN /\ clickok
                 /\ tw_req' = [tw_req EXCEPT ![r] = Pending(q, TRUE, "Already following @", "")]
                 /\ UNCHANGED << tw_world, tw_dom >>
          ELSE IF q.action = "like" /\ query_selector(tw_dom, UNLIKE)
            THEN /\ clickok
                 /\ tw_req' = [tw_req EXCEPT ![r] = Pending(q, TRUE, "Tweet already liked", "")]
                 /\ UNCHANGED << tw_world, tw_dom >>
          ELSE IF ~clickok
            THEN /\ tw_req' = [tw_req EXCEPT ![r] =
                      Pending(Escape(Op(q, "click:" \o q.action)), FALSE, ErrorOf(q.action), EXC)]
                 /\ UNCHANGED << tw_world, tw_dom >>
          ELSE /\ tw_world' = c.world
               /\ tw_dom' = c.dom
               /\ tw_req' = [tw_req EXCEPT ![r] = [Op(q, "click:" \o q.action) EXCEPT !.pc = "finish"]]
  /\ UNCHANGED << tw_up, tw_browser, tw_context, tw_page, tw_is_initialized,
                  tw_is_logged_in, tw_credentials, tw_file, tw_open, tw_url, tw_auth,
                  tw_arrived, tw_inflight, tw_bodies, tw_shutdown >>
  /\ UNCHANGED tw_health

\* What follows the click: the verification of _follow_user (280-284) and of
\* _like_tweet (328-332), the confirmation of _retweet_tweet (368-374), the
\* compose box and the send button of _reply_to_tweet (416-440).
TW_Finish(r) ==
  /\ tw_req[r].pc = "finish"
  /\ \E clickok \in BOOLEAN :
       LET q == tw_req[r]
           w == tw_world
       IN CASE q.action = "follow" ->
                 /\ clickok
                 /\ tw_req' = [tw_req EXCEPT ![r] =
                      IF wait_for_selector(tw_dom, UNFOLLOW)
                        THEN Pending([q EXCEPT !.observed = TRUE], TRUE, "Successfully followed @", "")
                        ELSE Pending(q, FALSE, "Follow action may have failed for @", "")]
                 /\ UNCHANGED << tw_world, tw_dom >>
            [] q.action = "like" ->
                 /\ clickok
                 /\ tw_req' = [tw_req EXCEPT ![r] =
                      IF wait_for_selector(tw_dom, UNLIKE)
                        THEN Pending([q EXCEPT !.observed = TRUE], TRUE, "Successfully liked tweet", "")
                        ELSE Pending(q, FALSE, "Like action may have failed", "")]
                 /\ UNCHANGED << tw_world, tw_dom >>
            [] q.action = "retweet" ->
                 IF wait_for_selector(tw_dom, RETWEET_CONFIRM) /\ clickok
                   THEN LET w2 == IF w.carries THEN [w EXCEPT !.retweeted = TRUE] ELSE w
                        IN /\ tw_world' = w2
                           /\ tw_dom' = TwRender(tw_url, w2, tw_auth)
                           /\ tw_req' = [tw_req EXCEPT ![r] =
                                Pending(Op(q, "click:confirm"), TRUE, "Successfully retweeted", "")]
                   ELSE /\ tw_req' = [tw_req EXCEPT ![r] =
                             Pending(Swallow(q, wait_for_selector(tw_dom, RETWEET_CONFIRM)),
                                     FALSE, "Could not confirm retweet", "")]
                        /\ UNCHANGED << tw_world, tw_dom >>
            [] OTHER ->
                 IF FirstMatch(tw_dom, compose_selectors) = 0
                   THEN /\ clickok
                        /\ tw_req' = [tw_req EXCEPT ![r] =
                             Pending(q, FALSE, "Could not find reply compose box", "")]
                        /\ UNCHANGED << tw_world, tw_dom >>
                 ELSE IF ~wait_for_selector(tw_dom, compose_selectors[1])
                   THEN /\ clickok
                        /\ tw_req' = [tw_req EXCEPT ![r] = Pending(Escape(q), FALSE, ErrorOf(q.action), EXC)]
                        /\ UNCHANGED << tw_world, tw_dom >>
                 ELSE IF wait_for_selector(tw_dom, TWEET_BUTTON) /\ clickok
                   THEN LET w2 == IF w.carries THEN [w EXCEPT !.replied = TRUE] ELSE w
                        IN /\ tw_world' = w2
                           /\ tw_dom' = TwRender(tw_url, w2, tw_auth)
                           /\ tw_req' = [tw_req EXCEPT ![r] =
                                Pending(Ops(Op(q, "type"), "click:send", 1), TRUE,
                                        "Successfully replied to tweet", "")]
                   ELSE /\ tw_req' = [tw_req EXCEPT ![r] =
                             Pending(Swallow(Op(q, "type"), wait_for_selector(tw_dom, TWEET_BUTTON)),
                                     FALSE, "Could not send reply", "")]
                        /\ UNCHANGED << tw_world, tw_dom >>
  /\ UNCHANGED << tw_up, tw_browser, tw_context, tw_page, tw_is_initialized,
                  tw_is_logged_in, tw_credentials, tw_file, tw_open, tw_url, tw_auth,
                  tw_arrived, tw_inflight, tw_bodies, tw_shutdown >>
  /\ UNCHANGED tw_health

\* _save_session (lines 120-129) after the action, and the response.
TW_Save(r) ==
  /\ tw_req[r].pc = "save"
  /\ \E saveok \in BOOLEAN :
       tw_file' = save_session(tw_file, tw_auth, saveok /\ TwAlive(tw_context))
  /\ tw_req' = [tw_req EXCEPT ![r] = [Op(@, "save") EXCEPT !.pc = "done", !.http = 200]]
  /\ UNCHANGED << tw_up, tw_browser, tw_context, tw_page, tw_is_initialized,
                  tw_is_logged_in, tw_credentials, tw_open, tw_url, tw_dom, tw_auth,
                  tw_world, tw_arrived, tw_inflight, tw_bodies, tw_shutdown >>
  /\ UNCHANGED tw_health

\* close, lines 544-548.
close(browser) == IF browser # 0 THEN << "close_browser" >> ELSE << >>

\* health_check, lines 553-560: the body of the answer.
tw_health_check(file) ==
  [status |-> "healthy", service |-> "twitter-worker", session_exists |-> file # "none"]

\* GET /health while no handler is in flight and the client has a request
\* left to send; the answer is delivered before the next request or the
\* shutdown.
TW_Health ==
  /\ tw_up
  /\ \A r \in Reqs : tw_req[r].pc \in {"idle", "done"}
  /\ tw_arrived < MaxRequests
  /\ tw_health = << >>
  /\ tw_health' = << tw_health_check(tw_file) >>
  /\ UNCHANGED << tw_up, tw_browser, tw_context, tw_page, tw_is_initialized,
                  tw_is_logged_in, tw_credentials, tw_file, tw_open, tw_url, tw_dom,
                  tw_auth, tw_world, tw_req, tw_arrived, tw_inflight, tw_bodies,
                  tw_shutdown >>

\* The Firefox process launched at lines 87-90 ends without the worker's
\* doing while no handler is in flight and a request is still to come: the
\* handles and is_initialized keep their values.
TW_BrowserClosed ==
  /\ tw_up
  /\ tw_is_initialized
  /\ TwAlive(tw_browser)
  /\ \A r \in Reqs : tw_req[r].pc \in {"idle", "done"}
  /\ tw_arrived < MaxRequests
  /\ tw_open' = tw_open \ {tw_browser, tw_context, tw_page}
  /\ UNCHANGED << tw_up, tw_browser, tw_context, tw_page, tw_is_initialized,
                  tw_is_logged_in, tw_credentials, tw_file, tw_url, tw_dom, tw_auth,
                  tw_world, tw_req, tw_arrived, tw_inflight, tw_bodies, tw_shutdown >>
  /\ UNCHANGED tw_health

\* shutdown_event, lines 609-612, once no handler is in flight.
TW_Shutdown ==
  /\ tw_up
  /\ \A r \in Reqs : tw_req[r].pc \in {"idle", "done"}
  /\ tw_shutdown' = close(tw_browser)
  /\ tw_open' = IF "close_browser" \in Range(close(tw_browser))
                  THEN tw_open \ {tw_browser} ELSE tw_open
  /\ tw_is_initialized' = IF tw_browser # 0 THEN FALSE ELSE tw_is_initialized
  /\ tw_up' = FALSE
  /\ UNCHANGED << tw_browser, tw_context, tw_page, tw_is_logged_in, tw_credentials,
                  tw_file, tw_url, tw_dom, tw_auth, tw_world, tw_req, tw_arrived,
                  tw_inflight, tw_bodies >>
  /\ tw_health' = << >>

\* ------------------------------------------------------------ specifications
\* ------------------------------------------------------------ orchestrator
\* src/orchestrator/app.py: POST /api/contact saves the contact, then calls
\* the WhatsApp bridge and the LinkedIn worker over HTTP.  The bridge, the
\* worker, the disk and the clock are the environment.
WHATSAPP_RATE_LIMIT_SECONDS == 2
Second == 1000000                \* datetime.now() counts microseconds
Times == {0, 400, 1000, Second, 2 * Second}   \* the instants the clock shows

LINKEDIN_URL == "https://www.linkedin.com/in/johndoe/"
TWITTER_URL == "https://twitter.com/johndoe"
EMAIL == "john.doe@example.com"
\* Phone numbers are strings, kept as the sequence of their characters.
PHONE1 == << "+", "1", "2", "3", "4", "5", "6", "7", "8", "9", "0" >>
PHONE2 == << "+", "4", "4", " ", "2", "0", " ", "7", "9", "4", "6", " ", "0", "9", "5", "8" >>
PHONE3 == << "(", "0", "2", "0", ")", " ", "7", "9", "4", "6", "-", "0", "9", ".", "5", "8" >>
PHONE4 == << "+", "+", "4", "4", " ", "2", "0" >>
SPACES == << " ", " " >>       \* a phone number that strip() empties
PHOTO_PATH == "data/media/photo.jpg"
AUDIO_PATH == "data/media/audio.m4a"

\* A base64 media value, by what save_media_file looks at: the length of the
\* string, the number of its characters that are not whitespace, whether
\* these are all base64 characters that decode, and the decoded size.
Media(len, chars, base64, bytes) ==
  [len |-> len, chars |-> chars, base64 |-> base64, bytes |-> bytes]

NoMedia == Media(0, 0, TRUE, 0)            \* None
PHOTO_B64 == Media(136, 136, TRUE, 100)    \* an image of 100 bytes
SMALL_B64 == Media(96, 96, TRUE, 70)       \* SAMPLE_PHOTO_B64, a one-pixel PNG
SHORT_B64 == Media(8, 8, TRUE, 6)          \* "iVBORw0K"
BAD_B64 == Media(24, 24, FALSE, 0)         \* holds characters outside base64
BLANK_B64 == Media(3, 0, TRUE, 0)          \* whitespace only
AUDIO_B64 == Media(200, 200, TRUE, 150)    \* a recording of 150 bytes
HTTPX_ERROR == "ReadTimeout"     \* str(e) of an httpx error other than ConnectError
DISK_ERROR == "[Errno 28] No space left on device"
Never == -1                      \* None, where a time is expected

Contact(first, last, phones, emails, urls, photo) ==
  [first_name |-> first, last_name |-> last, phone_numbers |-> phones,
   emails |-> emails, urls |-> urls, audio |-> NoMedia, photo |-> photo]

NoContact == Contact(None, None, << >>, << >>, << >>, NoMedia)

FULL_CONTACT ==
  Contact("John", "Doe", << PHONE1 >>, << EMAIL >>, << LINKEDIN_URL, TWITTER_URL >>, SMALL_B64)

OR_Contacts ==
  { FULL_CONTACT,
    NoContact,
    Contact("Charlie", "Cheesman", << PHONE1 >>, << EMAIL >>, << >>, NoMedia),
    Contact("John", None, << PHONE1, PHONE2 >>, << >>, << >>, NoMedia),
    Contact(None, None, << SPACES, PHONE1 >>, << >>, << TWITTER_URL >>, PHOTO_B64),
    [Contact("Jane", None, << PHONE3, SPACES, PHONE4 >>, << >>, << >>, BAD_B64)
       EXCEPT !.audio = AUDIO_B64],
    [Contact(None, None, << >>, << >>, << TWITTER_URL, LINKEDIN_URL >>, SHORT_B64)
       EXCEPT !.audio = BLANK_B64] }

\* One part of the status string, which joins the parts with " | ".
Part(head, detail) == [head |-> head, detail |-> detail]

OrIdleReq ==
  [pc |-> "idle", contact |-> NoContact, contact_id |-> -1, seq |-> 0,
   saved |-> FALSE, audio_path |-> None, photo_path |-> None, i |-> 0, wake |-> 0,
   calls |-> << >>, outcomes |-> << >>, tried |-> << >>, recipients |-> << >>,
   phone_number_used |-> << >>, li_body |-> [profile_url |-> None, name |-> None],
   whatsapp_status |-> Part(None, None), linkedin_status |-> Part(None, None),
   http |-> 0, success |-> FALSE, message |-> None, answered_id |-> -1,
   status |-> << >>]

\* strftime("%Y%m%d_%H%M%S_%f")[:-3]: the time of day cut to the millisecond.
generate_contact_id(now) == now \div 1000

save_media_file_NoSizeCheck(data, file_type, ok) ==
  IF data.len = 0 \/ data.chars = 0 THEN None
  ELSE IF data.chars < 10 THEN None
  ELSE IF ~data.base64 THEN None
  ELSE IF ~ok THEN None
  ELSE IF file_type = "audio" THEN AUDIO_PATH ELSE PHOTO_PATH

\* The path of the media file written, or None: for blank data, for fewer
\* than 10 characters, for characters outside base64 or data that does not
\* decode, for fewer than 100 decoded bytes, and when the write raises.
save_media_file(data, file_type, ok) ==
  IF data.len = 0 \/ data.chars = 0 THEN None
  ELSE IF data.chars < 10 THEN None
  ELSE IF ~data.base64 THEN None
  ELSE IF data.bytes < 100 THEN None
  ELSE IF ~ok THEN None
  ELSE IF file_type = "audio" THEN AUDIO_PATH ELSE PHOTO_PATH

\* contact.dict() with "audio" and "photo" popped and the file paths added.
contact_dict(c, id, audio_path, photo_path) ==
  [first_name |-> c.first_name, last_name |-> c.last_name,
   phone_numbers |-> c.phone_numbers, emails |-> c.emails, urls |-> c.urls,
   id |-> id, audio_file |-> audio_path, photo_file |-> photo_path]

\* "linkedin.com" in url.lower()
IsLinkedIn(url) == url \in { LINKEDIN_URL }

RECURSIVE FirstLinkedIn(_, _)
FirstLinkedIn(urls, i) ==
  IF i > Len(urls) THEN None
  ELSE IF IsLinkedIn(urls[i]) THEN urls[i]
  ELSE FirstLinkedIn(urls, i + 1)

\* " ".join(part for part in [first_name, last_name] if part), as the parts kept
full_name(c) ==
  (IF Truthy(c.first_name) THEN << c.first_name >> ELSE << >>)
    \o (IF Truthy(c.last_name) THEN << c.last_name >> ELSE << >>)

should_try_linkedin(c) ==
  \/ \E i \in DOMAIN c.urls : IsLinkedIn(c.urls[i])
  \/ full_name(c) # << >>

\* What the bridge or a worker does with one HTTP call.
WorkerOutcomes == {"ok", "refused", "http500", "unreachable", "exception"}

Result(success, message) == [success |-> success, message |-> message, raised |-> FALSE]

\* The dict try_send_whatsapp_to_number_with_photo returns.
try_send_whatsapp_to_number_with_photo(o) ==
  CASE o = "ok" -> Result(TRUE, "sent")
    [] o = "refused" -> Result(FALSE, "WhatsApp client not connected")
    [] o = "http500" -> Result(FALSE, "WhatsApp API error: 500")
    [] o = "unreachable" -> Result(FALSE, "WhatsApp bridge not available")
    [] o = "exception" -> Result(FALSE, HTTPX_ERROR)

trigger_linkedin_connection_Propagates(o) ==
  CASE o = "ok" -> Result(TRUE, "Connection request sent")
    [] o = "refused" -> Result(FALSE, "Could not find Connect button")
    [] o = "http500" -> Result(FALSE, "LinkedIn API error: 500")
    [] o = "unreachable" -> [Result(FALSE, "ConnectError") EXCEPT !.raised = TRUE]
    [] o = "exception" -> [Result(FALSE, HTTPX_ERROR) EXCEPT !.raised = TRUE]

\* The dict trigger_linkedin_connection returns.
trigger_linkedin_connection(o) ==
  CASE o = "ok" -> Result(TRUE, "Connection request sent")
    [] o = "refused" -> Result(FALSE, "Could not find Connect button")
    [] o = "http500" -> Result(FALSE, "LinkedIn API error: 500")
    [] o = "unreachable" -> Result(FALSE, "LinkedIn worker not available")
    [] o = "exception" -> Result(FALSE, HTTPX_ERROR)

\* return ContactResponse(success=True, ...)
Answer(q) ==
  [q EXCEPT !.pc = "done", !.http = 200, !.success = TRUE,
            !.message = "Contact saved successfully",
            !.answered_id = q.contact_id,
            !.status = << q.whatsapp_status, q.linkedin_status >>]

\* except Exception as e: raise HTTPException(status_code=500, detail=str(e))
Raise500(q, detail) ==
  [q EXCEPT !.pc = "done", !.http = 500, !.success = FALSE, !.message = detail]

\* receive_contact from the LinkedIn decision to the POST to the worker.
AfterWhatsApp(q) ==
  IF should_try_linkedin(q.contact)
  THEN LET url == FirstLinkedIn(q.contact.urls, 1)
           name == IF url = None /\ full_name(q.contact) # << >>
                   THEN full_name(q.contact) ELSE None
       IN [q EXCEPT !.pc = "linkedin", !.calls = Append(@, "linkedin"),
                    !.li_body = [profile_url |-> url, name |-> name]]
  ELSE Answer([q EXCEPT !.linkedin_status = Part("No LinkedIn action taken", None)])

\* `not phone_number.strip()`
Blank(s) == \A k \in DOMAIN s : s[k] = " "

NotStripped(c) == c \notin {" ", "-", "(", ")", "."}

\* The replace() chain removes spaces, dashes, parentheses and dots; then one
\* leading "+" is cut.
clean_phone_number(s) ==
  LET cleaned == SelectSeq(s, NotStripped)
  IN IF cleaned # << >> /\ Head(cleaned) = "+" THEN Tail(cleaned) ELSE cleaned

NextNumber_KeepsBlank(nums, i) == IF i <= Len(nums) THEN i ELSE 0

\* Index of the first phone number from i on that strip() leaves non-empty, 0 if none.
NextNumber(nums, i) ==
  LET c == { j \in i..Len(nums) : ~Blank(nums[j]) }
  IN IF c = {} THEN 0 ELSE CHOOSE j \in c : \A k \in c : j <= k

\* POST {bridge}/api/send starts: the handler, the global and the send log after it.
Send(q, j, now, sends) ==
  [q |-> [q EXCEPT !.pc = "whatsapp", !.i = j, !.calls = Append(@, "whatsapp"),
                   !.tried = Append(@, j),
                   !.recipients = Append(@, clean_phone_number(q.contact.phone_numbers[j]))],
   last |-> now, sends |-> Append(sends, now)]

\* send_whatsapp_message_with_photo from phone number i on, up to its next
\* await: enforce_whatsapp_rate_limit either sleeps or stamps the global and
\* the POST starts; with no number left the loop ends in failure.
Attempt(q, i, now, last, sends) ==
  LET nums == q.contact.phone_numbers
      j == NextNumber(nums, i)
  IN IF j = 0
     THEN [q |-> AfterWhatsApp([q EXCEPT !.whatsapp_status =
                    Part("WhatsApp failed", << "Failed to send WhatsApp message to all", Len(nums) >>)]),
           last |-> last, sends |-> sends]
     ELSE IF last # Never /\ now - last < WHATSAPP_RATE_LIMIT_SECONDS * Second
     THEN [q |-> [q EXCEPT !.pc = "sleep", !.i = j,
                           !.wake = now + (WHATSAPP_RATE_LIMIT_SECONDS * Second - (now - last))],
           last |-> last, sends |-> sends]
     ELSE Send(q, j, now, sends)

OR_InitWith(up, n, contacts) ==
  /\ or_up = up
  /\ or_clock = 0
  /\ last_whatsapp_send_time = Never
  /\ or_files = {}
  /\ or_req = [r \in Reqs |-> OrIdleReq]
  /\ or_arrived = 0
  /\ or_inflight = n
  /\ or_contacts = contacts
  /\ or_ids = << >>
  /\ or_sends = << >>

\* POST /api/contact is accepted: the id is generated and the handler awaits
\* the file write.
OR_Arrive(r) ==
  /\ or_up
  /\ r = FreeSlot(or_req)
  /\ or_arrived < MaxRequests
  /\ Cardinality(Busy(or_req)) < or_inflight
  /\ \E c \in or_contacts :
       or_req' = [ [q \in Reqs |-> IF or_req[q].pc = "done" THEN OrIdleReq ELSE or_req[q]]
                   EXCEPT ![r] = [OrIdleReq EXCEPT !.pc = "save", !.contact = c,
                                     !.contact_id = generate_contact_id(or_clock),
                                     !.seq = or_arrived + 1] ]
  /\ or_arrived' = or_arrived + 1
  /\ or_ids' = Append(or_ids, generate_contact_id(or_clock))
  /\ UNCHANGED << or_up, or_clock, last_whatsapp_send_time, or_files,
                  or_inflight, or_contacts, or_sends >>

\* save_contact_to_file completes, or raises; after it the handler runs to the
\* first await of the WhatsApp or LinkedIn call, or to its response.
OR_Save(r) ==
  /\ or_up
  /\ or_req[r].pc = "save"
  /\ \E ok, mediaok \in BOOLEAN :
       LET q == or_req[r]
           audio_path == IF q.contact.audio.len > 0
                         THEN save_media_file(q.contact.audio, "audio", mediaok) ELSE None
           photo_path == IF q.contact.photo.len > 0
                         THEN save_media_file(q.contact.photo, "photo", mediaok) ELSE None
           q1 == [q EXCEPT !.saved = TRUE, !.audio_path = audio_path,
                           !.photo_path = photo_path]
           next == IF q.contact.phone_numbers # << >>
                   THEN Attempt(q1, 1, or_clock, last_whatsapp_send_time, or_sends)
                   ELSE [q |-> AfterWhatsApp([q1 EXCEPT !.whatsapp_status =
                                  Part("No WhatsApp action taken", None)]),
                         last |-> last_whatsapp_send_time, sends |-> or_sends]
       IN IF ok
          THEN /\ or_files' = { f \in or_files : f.id # q.contact_id }
                                \cup { [id |-> q.contact_id, seq |-> q.seq,
                                       json |-> contact_dict(q.contact, q.contact_id,
                                                             audio_path, photo_path)] }
               /\ or_req' = [or_req EXCEPT ![r] = next.q]
               /\ last_whatsapp_send_time' = next.last
               /\ or_sends' = next.sends
          ELSE /\ or_req' = [or_req EXCEPT ![r] = Raise500(q, DISK_ERROR)]
               /\ UNCHANGED << or_files, last_whatsapp_send_time, or_sends >>
  /\ UNCHANGED << or_up, or_clock, or_arrived, or_inflight, or_contacts, or_ids >>

\* asyncio.sleep(wait_time) returns: the global is stamped and the POST starts.
OR_Wake(r) ==
  /\ or_up
  /\ or_req[r].pc = "sleep"
  /\ or_clock >= or_req[r].wake
  /\ LET next == Send(or_req[r], or_req[r].i, or_clock, or_sends)
     IN /\ or_req' = [or_req EXCEPT ![r] = next.q]
        /\ last_whatsapp_send_time' = next.last
        /\ or_sends' = next.sends
  /\ UNCHANGED << or_up, or_clock, or_files, or_arrived, or_inflight, or_contacts, or_ids >>

\* The POST to the bridge ends: success ends the loop, failure tries the
\* next phone number.
OR_WhatsApp(r) ==
  /\ or_up
  /\ or_req[r].pc = "whatsapp"
  /\ \E o \in WorkerOutcomes :
       LET q == [or_req[r] EXCEPT !.outcomes = Append(@, o)]
           result == try_send_whatsapp_to_number_with_photo(o)
           sent == Part("WhatsApp message sent successfully",
                        IF q.photo_path # None THEN "(with photo)" ELSE None)
           next == IF result.success
                   THEN [q |-> AfterWhatsApp([q EXCEPT !.whatsapp_status = sent,
                              !.phone_number_used =
                                 clean_phone_number(q.contact.phone_numbers[q.i])]),
                         last |-> last_whatsapp_send_time, sends |-> or_sends]
                   ELSE Attempt(q, q.i + 1, or_clock, last_whatsapp_send_time, or_sends)
       IN /\ or_req' = [or_req EXCEPT ![r] = next.q]
          /\ last_whatsapp_send_time' = next.last
          /\ or_sends' = next.sends
  /\ UNCHANGED << or_up, or_clock, or_files, or_arrived, or_inflight, or_contacts, or_ids >>

\* The POST to the LinkedIn worker ends and the response is returned.
OR_LinkedIn(r) ==
  /\ or_up
  /\ or_req[r].pc = "linkedin"
  /\ \E o \in WorkerOutcomes :
       LET q == [or_req[r] EXCEPT !.outcomes = Append(@, o)]
           result == trigger_linkedin_connection(o)
       IN or_req' = [or_req EXCEPT ![r] =
            IF result.raised THEN Raise500(q, result.message)
            ELSE IF result.success
            THEN Answer([q EXCEPT !.linkedin_status = Part("LinkedIn connection request sent", None)])
            ELSE Answer([q EXCEPT !.linkedin_status = Part("LinkedIn failed", result.message)])]
  /\ UNCHANGED << or_up, or_clock, last_whatsapp_send_time, or_files,
                  or_arrived, or_inflight, or_contacts, or_ids, or_sends >>

\* Time passes.
OR_Tick ==
  /\ or_up
  /\ \E t \in Times : t > or_clock /\ or_clock' = t
  /\ UNCHANGED << or_up, last_whatsapp_send_time, or_files, or_req,
                  or_arrived, or_inflight, or_contacts, or_ids, or_sends >>

OR_Down == OR_InitWith(FALSE, 0, {})

\* The processes share nothing; a behaviour follows one of them and the
\* others stay down.
LI_Down ==
  LI_InitWith(FALSE, 0, {"none"}, {Fixture("stranger", 1, TRUE, "absent", TRUE, 1, TRUE)}, {})

TW_Down == TW_InitWith(FALSE, 0, {"none"}, {TwBase}, {}, {FALSE})

\* One step of one handler, or the shutdown, of the worker that is up.
Next ==
  \/ \E r \in Reqs : LI_Arrive(r) /\ UNCHANGED << twVars, orVars >>
  \/ \E r \in Reqs : LI_SetupClose(r) /\ UNCHANGED << twVars, orVars >>
  \/ \E r \in Reqs : LI_Launch(r) /\ UNCHANGED << twVars, orVars >>
  \/ \E r \in Reqs : LI_Load(r) /\ UNCHANGED << twVars, orVars >>
  \/ \E r \in Reqs : LI_Login(r) /\ UNCHANGED << twVars, orVars >>
  \/ \E r \in Reqs : LI_Save(r) /\ UNCHANGED << twVars, orVars >>
  \/ \E r \in Reqs : LI_UrlGoto(r) /\ UNCHANGED << twVars, orVars >>
  \/ \E r \in Reqs : LI_UrlConnect(r) /\ UNCHANGED << twVars, orVars >>
  \/ \E r \in Reqs : LI_UrlSend(r) /\ UNCHANGED << twVars, orVars >>
  \/ \E r \in Reqs : LI_SearchNav(r) /\ UNCHANGED << twVars, orVars >>
  \/ \E r \in Reqs : LI_SearchResults(r) /\ UNCHANGED << twVars, orVars >>
  \/ \E r \in Reqs : LI_SearchProfile(r) /\ UNCHANGED << twVars, orVars >>
  \/ \E r \in Reqs : LI_SearchModal(r) /\ UNCHANGED << twVars, orVars >>
  \/ LI_Health /\ UNCHANGED << twVars, orVars >>
  \/ LI_BrowserClosed /\ UNCHANGED << twVars, orVars >>
  \/ LI_Shutdown /\ UNCHANGED << twVars, orVars >>
  \/ \E r \in Reqs : TW_Arrive(r) /\ UNCHANGED << liVars, orVars >>
  \/ \E r \in Reqs : TW_InitBrowser(r) /\ UNCHANGED << liVars, orVars >>
  \/ \E r \in Reqs : TW_CheckLogin(r) /\ UNCHANGED << liVars, orVars >>
  \/ \E r \in Reqs : TW_Login(r) /\ UNCHANGED << liVars, orVars >>
  \/ \E r \in Reqs : TW_Goto(r) /\ UNCHANGED << liVars, orVars >>
  \/ \E r \in Reqs : TW_Click(r) /\ UNCHANGED << liVars, orVars >>
  \/ \E r \in Reqs : TW_Finish(r) /\ UNCHANGED << liVars, orVars >>
  \/ \E r \in Reqs : TW_Save(r) /\ UNCHANGED << liVars, orVars >>
  \/ TW_Health /\ UNCHANGED << liVars, orVars >>
  \/ TW_BrowserClosed /\ UNCHANGED << liVars, orVars >>
  \/ TW_Shutdown /\ UNCHANGED << liVars, orVars >>
  \/ \E r \in Reqs : OR_Arrive(r) /\ UNCHANGED << liVars, twVars >>
  \/ \E r \in Reqs : OR_Save(r) /\ UNCHANGED << liVars, twVars >>
  \/ \E r \in Reqs : OR_Wake(r) /\ UNCHANGED << liVars, twVars >>
  \/ \E r \in Reqs : OR_WhatsApp(r) /\ UNCHANGED << liVars, twVars >>
  \/ \E r \in Reqs : OR_LinkedIn(r) /\ UNCHANGED << liVars, twVars >>
  \/ OR_Tick /\ UNCHANGED << liVars, twVars >>

\* One of the processes with its requests sent one after the other.
Init ==
  \/ LI_InitWith(TRUE, 1, LI_Files, LI_Fixtures, LI_Bodies) /\ TW_Down /\ OR_Down
  \/ TW_InitWith(TRUE, 1, LI_Files, TW_Fixtures, TW_Bodies, BOOLEAN) /\ LI_Down /\ OR_Down
  \/ OR_InitWith(TRUE, 1, OR_Contacts) /\ LI_Down /\ TW_Down
Spec == Init /\ [][Next]_vars

\* One of the processes with up to NReq requests in flight at once.
InitConcurrent ==
  \/ /\ LI_InitWith(TRUE, NReq, {"none", "valid"},
                    { Fixture("stranger", 1, TRUE, "absent", TRUE, 1, TRUE) },
                    { Body(PROFILE, None, None), Body(None, NAME, None), Body(None, None, None) })
     /\ TW_Down /\ OR_Down
  \/ /\ TW_InitWith(TRUE, NReq, {"none", "valid"},
                    { TwBase },
                    { TwBody("/api/follow", USERNAME, None, None, None),
                      TwBody("/api/like", None, None, TWEET, None),
                      TwBody("/api/execute", USERNAME, "retweet", None, None) },
                    {TRUE})
     /\ LI_Down /\ OR_Down
  \/ /\ OR_InitWith(TRUE, NReq,
                    { NoContact, Contact("John", None, << PHONE1, PHONE2 >>, << >>, << >>, NoMedia) })
     /\ LI_Down /\ TW_Down
SpecConcurrent == InitConcurrent /\ [][Next]_vars

\* ------------------------------------------------------------------ claims
\* Operations of a handler on the shared page, by kind.
Navigations ==
  {"goto:feed", "login", "goto:profile", "goto:search", "goto:home", "goto:login", "goto:tweet"}

Clicks ==
  {"click:connect", "click:send", "click:result", "click:follow", "click:like",
   "click:retweet", "click:reply", "click:confirm"}

\* Operations that belong to the requested action itself.
ActionOps == Clicks \cup {"goto:profile", "goto:search", "goto:tweet", "type"}

Did(q, kinds) == \E i \in DOMAIN q.ops : q.ops[i] \in kinds

Before(q, a, b) == \E i, j \in DOMAIN q.ops : i < j /\ q.ops[i] = a /\ q.ops[j] = b

Running(q) == q.pc \notin {"idle", "done"}

\* C1: of two requests in flight on one worker, the second never starts a
\* navigation before the first has returned its result: no two handlers that
\* are both still running have both navigated the page.
C1_NoInterleaving ==
  \A p, q \in Reqs :
    p # q =>
      /\ ~(Running(li_req[p]) /\ Running(li_req[q])
           /\ Did(li_req[p], Navigations) /\ Did(li_req[q], Navigations))
      /\ ~(Running(tw_req[p]) /\ Running(tw_req[q])
           /\ Did(tw_req[p], Navigations) /\ Did(tw_req[q], Navigations))

\* C2: a POST /api/add-connection with neither profile_url nor name is
\* answered 400 and has caused no launch, session load, login or navigation.
C2_ValidationBeforeBrowser ==
  \A r \in Reqs :
    (li_req[r].pc = "done" /\ ~Truthy(li_req[r].profile_url) /\ ~Truthy(li_req[r].name))
      => (li_req[r].http = 400 /\ li_req[r].ops = << >>)

\* The action a Twitter request asks for, by its endpoint.
ActionOf(q) ==
  CASE q.endpoint = "/api/follow" -> "follow"
    [] q.endpoint = "/api/like" -> "like"
    [] q.endpoint = "/api/retweet" -> "retweet"
    [] q.endpoint = "/api/reply" -> "reply"
    [] OTHER -> q.action

MissingField(q) ==
  \/ ActionOf(q) = "follow" /\ ~Truthy(q.username)
  \/ ActionOf(q) \in {"like", "retweet", "reply"} /\ ~Truthy(q.tweet_url)
  \/ ActionOf(q) = "reply" /\ ~Truthy(q.message)
  \/ ActionOf(q) \notin {"follow", "like", "retweet", "reply"}

\* C3: a Twitter request that misses a required field, or names an unknown
\* action, fails without the browser being initialized and without any
\* navigation, on every endpoint.
C3_ValidationBeforeBrowser ==
  \A r \in Reqs :
    (tw_req[r].pc = "done" /\ MissingField(tw_req[r]))
      => (~tw_req[r].success /\ tw_req[r].ops = << >>)

\* C4: when the login flow of a request ended not logged in (LinkedIn: on the
\* login page or at a checkpoint; Twitter: _login returned False), no
\* operation of the requested action is performed, and a request that names
\* a target is answered with the not-authenticated failure.
C4_LoginFailureHaltsAction ==
  \A r \in Reqs :
    /\ li_req[r].login \in {"failed", "checkpoint"} =>
         /\ ~Did(li_req[r], ActionOps)
         /\ (li_req[r].pc = "done" /\ (Truthy(li_req[r].profile_url) \/ Truthy(li_req[r].name)))
              => (~li_req[r].success /\ li_req[r].msg = "Not logged into LinkedIn")
    /\ tw_req[r].login \in {"failed", "nocreds", "raised"} =>
         /\ ~Did(tw_req[r], ActionOps)
         /\ tw_req[r].pc = "done" => (~tw_req[r].success /\ tw_req[r].msg = LOGIN_FAILED)

\* A request with a target whose login ended at a checkpoint has been
\* answered.
C4_Witness ==
  \E r \in Reqs :
    /\ li_req[r].pc = "done" /\ li_req[r].login = "checkpoint"
    /\ Truthy(li_req[r].profile_url)
    /\ li_req[r].msg = "Not logged into LinkedIn"

\* C5: a request that clicked a control reports success only when a
\* post-condition element was observed after the final click.
C5_SuccessNeedsPostcondition ==
  \A r \in Reqs :
    /\ (li_req[r].pc = "done" /\ li_req[r].success /\ Did(li_req[r], Clicks))
         => li_req[r].observed
    /\ (tw_req[r].pc = "done" /\ tw_req[r].success /\ Did(tw_req[r], Clicks))
         => tw_req[r].observed

\* C6: a connect or follow request that reaches a target which is already
\* connected or followed, without an operation raising, returns success and
\* clicks nothing.
C6_Idempotent ==
  \A r \in Reqs :
    /\ (li_req[r].pc = "done" /\ li_world.status = "connected"
        /\ Did(li_req[r], {"goto:profile"}) /\ li_req[r].exc = "")
         => (li_req[r].success /\ ~Did(li_req[r], Clicks))
    /\ (tw_req[r].pc = "done" /\ tw_req[r].action = "follow" /\ tw_req[r].already
        /\ tw_req[r].exc = "")
         => (tw_req[r].success /\ ~Did(tw_req[r], Clicks))

\* The replay of the snapshot ran to a verdict: the navigation that tests
\* the session completed.
ReplayCompleted(q) == Did(q, {"goto:feed"}) /\ q.replay # "navfault"

CheckCompleted(q) == q.checked \notin {"none", "navfault"}

\* C7 (first half, both workers): credentials are entered only by a request
\* whose initialization has replayed the snapshot before and did not find a
\* logged-in page.
C7_ReplayFirst ==
  \A r \in Reqs :
    /\ (li_req[r].pc = "login" \/ Did(li_req[r], {"login"})) =>
         (Did(li_req[r], {"load"}) /\ li_req[r].replay \notin {"none", "loggedin"})
    /\ Did(li_req[r], {"login"}) => Before(li_req[r], "load", "login")
    /\ (tw_req[r].pc = "login" \/ Did(tw_req[r], {"goto:login"})) =>
         (Did(tw_req[r], {"goto:home"}) /\ tw_req[r].checked \notin {"none", "loggedin"})
    /\ Did(tw_req[r], {"goto:login"}) => Before(tw_req[r], "goto:home", "goto:login")

C8_TimeoutIsFailure ==
  \A r \in Reqs :
    (li_req[r].pc = "save" /\ li_req[r].login \in {"failed", "assumed"})
      => ~li_is_logged_in

\* C9: after a login attempt has ended at a checkpoint no handler reaches
\* _login again.
C9_NoRetryAfterCheckpoint ==
  li_checkpointed => \A r \in Reqs : li_req[r].pc # "login"

\* C10: the shutdown of the LinkedIn worker attempts the save before anything
\* is closed whenever the instance is logged in and has a context, and it
\* closes the page, the context and the browser whether or not the save
\* worked.
C10_SaveThenRelease ==
  [][ (li_up /\ ~li_up') =>
        /\ (li_context # 0 /\ li_is_logged_in) =>
              /\ Len(li_shutdown') > 0
              /\ li_shutdown'[1] \in {"save_session", "save_session_failed"}
        /\ \A i \in DOMAIN li_shutdown' :
              li_shutdown'[i] \in {"save_session", "save_session_failed"} => i = 1
        /\ li_page # 0 => "close_page" \in Range(li_shutdown')
        /\ li_context # 0 => "close_context" \in Range(li_shutdown')
        /\ li_browser # 0 => "close_browser" \in Range(li_shutdown')
        /\ li_open' = {}
        /\ li_page' = 0 /\ li_context' = 0 /\ li_browser' = 0 ]_vars

\* A logged-in worker was shut down, its save failed, and the browser was
\* closed all the same.
C10_Witness ==
  /\ ~li_up
  /\ Len(li_shutdown) > 1
  /\ li_shutdown[1] = "save_session_failed"
  /\ "close_browser" \in Range(li_shutdown)
  /\ li_open = {}

\* C11: the shutdown of the Twitter worker saves the session snapshot before
\* it closes the browser whenever a browser context exists.
C11_SaveBeforeClose ==
  (~tw_up /\ tw_context # 0) =>
    /\ Len(tw_shutdown) > 0
    /\ tw_shutdown[1] = "save_session"

\* C12: loading the session snapshot never fails the request: with a missing
\* or unreadable file the LinkedIn worker goes on to the login flow, and no
\* Twitter request is answered with the error of reading the file.
C12_LoadFailsSoft ==
  \A r \in Reqs :
    /\ li_req[r].replay \in {"nofile", "unreadable"} =>
         (li_req[r].pc = "login" \/ Did(li_req[r], {"login"}))
    /\ tw_req[r].exc # JSON_ERROR

LiActionPcs ==
  {"url_goto", "url_connect", "url_send", "search_nav", "search_results",
   "search_profile", "search_modal"}

TwActionPcs == {"goto", "click", "finish"}

LiSession == << li_is_logged_in, li_browser, li_context, li_page >>

TwSession == << tw_is_logged_in, tw_is_initialized, tw_browser, tw_context, tw_page >>

FailedAction(q) == q.pc = "done" /\ Did(q, ActionOps) /\ ~q.success

\* C14: no step of add_connection or of a Twitter action changes the
\* worker's is_logged_in flag or its browser, context and page handles, and
\* the request that arrives after a failed action is not sent through
\* browser setup or login again.
C14_FailedActionKeepsSession ==
  [][\A r \in Reqs :
       /\ (li_req[r].pc \in LiActionPcs /\ li_req'[r] # li_req[r]) => LiSession' = LiSession
       /\ (tw_req[r].pc \in TwActionPcs /\ tw_req'[r] # tw_req[r]) => TwSession' = TwSession
       /\ (FailedAction(li_req[r]) /\ li_arrived' = li_arrived + 1) =>
            /\ LiSession' = LiSession
            /\ \A p \in Reqs : li_req'[p].pc \notin {"setup", "launch", "load", "login"}
       /\ (FailedAction(tw_req[r]) /\ tw_arrived' = tw_arrived + 1) =>
            /\ TwSession' = TwSession
            /\ \A p \in Reqs : tw_req'[p].pc # "init"]_vars

\* An action has failed on a live session and a further request can arrive.
C14_Witness ==
  \E r \in Reqs :
    /\ FailedAction(li_req[r])
    /\ li_is_logged_in
    /\ li_page # 0
    /\ li_arrived < MaxRequests

\* C15: no handler works on a session whose browser has been closed: a
\* request that finds the browser gone builds a new browser, context and
\* page before it checks the login or starts its action.
C15_DeadSessionIsRebuilt ==
  \A r \in Reqs :
    /\ li_req[r].pc \in LiActionPcs => Alive(li_page)
    /\ tw_req[r].pc \in TwActionPcs \cup {"check", "login"} => TwAlive(tw_page)

\* C16: every answer of LinkedIn add_connection and of a Twitter follow
\* carries a success flag and a message, and whenever success is true the
\* returned profile URL is a URL of the site, never None.
C16_ResultFullyPopulated ==
  \A r \in Reqs :
    /\ (li_req[r].pc = "done" /\ li_req[r].http = 200) =>
         /\ li_req[r].success \in BOOLEAN
         /\ li_req[r].msg # ""
         /\ li_req[r].success =>
              (li_req[r].url # None /\ UrlHas(li_req[r].url, "linkedin.com"))
    /\ (tw_req[r].pc = "done" /\ tw_req[r].http = 200 /\ tw_req[r].action = "follow") =>
         /\ tw_req[r].success \in BOOLEAN
         /\ tw_req[r].msg # ""
         /\ tw_req[r].success => tw_req[r].url = TW_PROFILE

\* A search by name has succeeded on a result link with a relative href.
C16_Witness ==
  \E r \in Reqs :
    /\ li_req[r].pc = "done"
    /\ li_req[r].success
    /\ Did(li_req[r], {"goto:search"})
    /\ Href(li_world) = PROFILE_REL
    /\ li_req[r].url = PROFILE

LiTargeted(q) == Truthy(q.profile_url) \/ Truthy(q.name)

\* C17: a request to either LinkedIn action endpoint that names a target and
\* arrives while the worker is not logged in is answered only after the
\* session initialization has run (the browser launch was attempted); it is
\* never rejected for not being logged in without that.
C17_LazyInitialization ==
  \A r \in Reqs :
    (li_req[r].pc = "done" /\ ~li_req[r].was_logged_in /\ LiTargeted(li_req[r]))
      => Did(li_req[r], {"launch"})

\* The fields by which an answer tells that a snapshot file exists, and that
\* the session believes itself logged in.
SnapshotFields == {"session_exists"}

LoggedInFields == {"linkedin_connected", "logged_in", "is_logged_in"}

ReportsBoth(answer) ==
  /\ DOMAIN answer \cap SnapshotFields # {}
  /\ DOMAIN answer \cap LoggedInFields # {}

\* C18: every answer to GET /health, of either worker, has a field for the
\* existence of the session snapshot file and a field for the logged-in
\* flag of the session in memory.
C18_HealthReportsBoth ==
  /\ \A i \in DOMAIN li_health : ReportsBoth(li_health[i])
  /\ \A i \in DOMAIN tw_health : ReportsBoth(tw_health[i])

\* The page shows a control the selector loop can click.
Exposes(dom, sels) == \E i \in DOMAIN sels : wait_for_selector(dom, sels[i])

\* C19: a request by profile URL whose page shows a visible Connect control
\* goes on to the confirmation modal, and, with a Send control in the modal,
\* ends with success, "Connection request sent successfully" and the URL of
\* the request, as long as no click raises.
C19_ConnectByUrlSucceeds ==
  [][\A r \in Reqs :
       /\ ( /\ li_req[r].pc = "url_connect"
            /\ li_req'[r] # li_req[r]
            /\ Alive(li_page)
            /\ Exposes(li_dom, connect_selectors)
            /\ ~li_req'[r].swallowed )
          => /\ li_req'[r].pc = "url_send"
             /\ (li_world.modal /\ li_world.send # 0) => Exposes(li_dom', send_selectors)
       /\ ( /\ li_req[r].pc = "url_send"
            /\ li_req'[r] # li_req[r]
            /\ Alive(li_page)
            /\ Exposes(li_dom, send_selectors)
            /\ ~li_req'[r].swallowed )
          => /\ li_req'[r].pc = "done"
             /\ li_req'[r].http = 200
             /\ li_req'[r].success
             /\ li_req'[r].msg = "Connection request sent successfully"
             /\ li_req'[r].url = li_req[r].profile_url]_vars

\* A request by URL has clicked Connect and Send and has been answered.
C19_Witness ==
  \E r \in Reqs :
    /\ li_req[r].pc = "done"
    /\ li_req[r].ops = << "goto:profile", "click:connect", "click:send" >>
    /\ li_world.modal
    /\ li_req[r].success
    /\ li_req[r].url = PROFILE

\* C20: a request by profile URL whose page shows no Connect control the
\* loop can click, and has a Message control, ends with success false,
\* "Already connected to this person" and the URL of the request, and has
\* clicked nothing.
C20_AlreadyConnected ==
  [][\A r \in Reqs :
       ( /\ li_req[r].pc = "url_connect"
         /\ li_req'[r] # li_req[r]
         /\ Alive(li_page)
         /\ ~Exposes(li_dom, connect_selectors)
         /\ query_selector(li_dom, MESSAGE_BUTTON) )
       => /\ li_req'[r].pc = "done"
          /\ li_req'[r].http = 200
          /\ ~li_req'[r].success
          /\ li_req'[r].msg = "Already connected to this person"
          /\ li_req'[r].url = li_req[r].profile_url
          /\ ~Did(li_req'[r], Clicks)
          /\ li_world' = li_world]_vars

\* A request by URL has been answered "Already connected" without a click.
C20_Witness ==
  \E r \in Reqs :
    /\ li_req[r].pc = "done"
    /\ li_req[r].ops = << "goto:profile" >>
    /\ li_req[r].msg = "Already connected to this person"
    /\ li_req[r].url = PROFILE
    /\ li_world.status = "connected"

\* What _add_by_profile_url answers for request q on the profile page of w
\* when no operation raises: the connect loop, the verdict when nothing was
\* clicked, the send loop.
UrlOutcome(q, w) ==
  LET dom == ProfileDOM(w, TRUE)
      c == ClickLoop(dom, connect_selectors, 1, {}, 0)
      after == IF w.modal THEN dom \cup ModalDOM(w) ELSE ProfileDOM(Invited(w), TRUE)
      s == ClickLoop(after, send_selectors, 1, {}, 0)
  IN IF c.at = 0 THEN not_clicked_result(q, dom, q.url)
     ELSE send_result(q, s.at # 0, q.url)

SameOutcome(a, b) == a.success = b.success /\ a.msg = b.msg /\ a.url = b.url

\* A request by name that found a result link and ended without any
\* operation raising.
ResolvedByName(q) ==
  /\ q.pc = "done"
  /\ Did(q, {"goto:search"})
  /\ q.url # None
  /\ ~q.escaped
  /\ ~q.swallowed

\* C21: a request by name that has resolved the name to the first result
\* link ends with the success flag, message and profile URL that a request by
\* that profile URL gets on the same profile, whatever controls the profile
\* and its modal show.
C21_SearchEqualsUrl ==
  \A r \in Reqs :
    ResolvedByName(li_req[r]) =>
      SameOutcome(li_req[r], UrlOutcome(li_req[r], li_req[r].world))

\* Position i is the first of the list whose selector shows a visible element.
IsFirst(dom, sels, i) ==
  /\ i \in DOMAIN sels
  /\ wait_for_selector(dom, sels[i])
  /\ \A j \in 1..(i - 1) : ~wait_for_selector(dom, sels[j])

Last(s) == s[Len(s)]

\* The loop that a handler at pc runs over list sels on page dom ended, in
\* this step, on the element of the first selector that matches, when one
\* matches; with clean, only steps in which no click raised are looked at.
FirstUsed(q, q2, pc, dom, sels, clean) ==
  (q.pc = pc /\ q2 # q /\ (clean => ~q2.swallowed) /\ ~q2.escaped
     /\ Exposes(dom, sels))
    => /\ Len(q2.used) = Len(q.used) + 1
       /\ \E i \in DOMAIN sels : IsFirst(dom, sels, i) /\ Last(q2.used) = sels[i]

LoopsUseFirst(clean) ==
  \A r \in Reqs :
    /\ Alive(li_page) =>
         /\ FirstUsed(li_req[r], li_req'[r], "url_connect", li_dom, connect_selectors, clean)
         /\ FirstUsed(li_req[r], li_req'[r], "url_send", li_dom, send_selectors, clean)
         /\ FirstUsed(li_req[r], li_req'[r], "search_modal", li_dom, modal_send_selectors, clean)
    /\ FirstUsed(tw_req[r], tw_req'[r], "click", tw_dom, SelectorsOf(tw_req[r].action), clean)

C23_HiddenNeverDecides ==
  \A r \in Reqs :
    /\ (li_req[r].pc = "done" /\ li_req[r].msg = "Already connected to this person")
         => wait_for_selector(li_dom, MESSAGE_BUTTON)
    /\ (tw_req[r].pc \in {"save", "done"} /\ tw_req[r].msg = "Tweet already liked")
         => wait_for_selector(tw_dom, UNLIKE)

\* C24: a request that carries a message and has clicked Send in a modal
\* that offers a note field has typed the note before that click.
C24_NoteBeforeSend ==
  \A r \in Reqs :
    ( /\ li_req[r].pc = "done"
      /\ Truthy(li_req[r].message)
      /\ li_req[r].world.modal
      /\ li_req[r].world.note
      /\ li_req[r].success
      /\ Did(li_req[r], {"click:send"}) )
    => Before(li_req[r], "type:note", "click:send")

\* C25: a request to /api/add-connection that supplies both profile_url and
\* name is answered 400 and performs no operation of the action.
C25_ExactlyOneTarget ==
  \A r \in Reqs :
    ( /\ li_req[r].pc = "done"
      /\ li_req[r].endpoint = "/api/add-connection"
      /\ Truthy(li_req[r].profile_url)
      /\ Truthy(li_req[r].name) )
    => (li_req[r].http = 400 /\ ~Did(li_req[r], ActionOps))

\* The contact file of a handler is on disk.
OrFileOf(q) == \E f \in or_files : f.id = q.contact_id

\* C26: whatever the WhatsApp bridge and the LinkedIn worker do with the calls
\* (unreachable, non-200, success=false, exception), a handler of
\* /api/contact calls them only after its contact file was written, the file
\* contact_<id>.json stays on disk, and the handler answers 200 with
\* success=true and its contact_id.
C26_WorkerFailureTolerated ==
  \A r \in Reqs :
    LET q == or_req[r]
    IN /\ q.calls # << >> => q.saved
       /\ q.saved => OrFileOf(q)
       /\ (q.pc = "done" /\ q.saved) =>
            q.http = 200 /\ q.success /\ q.answered_id = q.contact_id

\* Both phone numbers and the LinkedIn call have failed, each in its own way,
\* and the response is out.
C26_Witness ==
  \E r \in Reqs :
    /\ or_req[r].pc = "done"
    /\ or_req[r].outcomes = << "unreachable", "http500", "exception" >>
    /\ or_req[r].http = 200

\* C27: the status of a contact with an email address has an email part, and
\* the status of a contact with phone, email, LinkedIn URL and Twitter URL has
\* four parts, one per worker.
C27_FanOutToEveryChannel ==
  \A r \in Reqs :
    LET q == or_req[r]
    IN (q.pc = "done" /\ q.http = 200) =>
         /\ q.contact.emails # << >> =>
              \E i \in DOMAIN q.status :
                q.status[i].head \in {"Email sent successfully", "Email failed"}
         /\ q.contact = FULL_CONTACT => Len(q.status) = 4

\* C28: a worker process never has two browsers running.
C28_OneBrowserPerWorker ==
  /\ Cardinality(li_open) <= 1
  /\ Cardinality(tw_open) <= 1

\* C29: any two POSTs to the bridge's /api/send start at least
\* WHATSAPP_RATE_LIMIT_SECONDS apart.
C29_SendsTwoSecondsApart ==
  \A i, j \in DOMAIN or_sends :
    i < j => or_sends[j] - or_sends[i] >= WHATSAPP_RATE_LIMIT_SECONDS * Second

\* C30: no two contacts get the same contact_id, and the file of a saved
\* contact holds that contact.
C30_ContactIdsUnique ==
  /\ \A i, j \in DOMAIN or_ids : i # j => or_ids[i] # or_ids[j]
  /\ \A r \in Reqs :
       or_req[r].saved =>
         \E f \in or_files : f.id = or_req[r].contact_id /\ f.seq = or_req[r].seq

\* C31: a handler writes the session snapshot only right after a credential
\* login that ended logged-in: never after a login that failed or ended at a
\* checkpoint, and never after an operation of the requested action.
C31_SnapshotOnlyAfterLogin ==
  \A r \in Reqs :
    /\ \A i \in DOMAIN li_req[r].ops :
         li_req[r].ops[i] = "save" =>
           /\ li_req[r].login \in {"ok", "assumed"}
           /\ ~\E j \in 1..(i - 1) : li_req[r].ops[j] \in ActionOps
    /\ \A i \in DOMAIN tw_req[r].ops :
         tw_req[r].ops[i] = "save" =>
           /\ tw_req[r].login = "ok"
           /\ ~\E j \in 1..(i - 1) : tw_req[r].ops[j] \in ActionOps

\* The requested action of handler q has begun only after a snapshot save.
SavedFirst(q) ==
  \A j \in DOMAIN q.ops :
    q.ops[j] \in ActionOps => \E i \in 1..(j - 1) : q.ops[i] = "save"

\* C32: in a request whose credential login ended logged-in, _save_session
\* has been called before the first operation of the requested action.
C32_SaveBeforeFirstAction ==
  \A r \in Reqs :
    /\ li_req[r].login \in {"ok", "assumed"} => SavedFirst(li_req[r])
    /\ tw_req[r].login = "ok" => SavedFirst(tw_req[r])

\* A request has logged in with credentials and has gone on to click.
C32_Witness ==
  \E r \in Reqs :
    \/ li_req[r].login = "ok" /\ Did(li_req[r], Clicks)
    \/ tw_req[r].login = "ok" /\ Did(tw_req[r], Clicks)

\* How many times handler q attempted the operation o.
Attempts(q, o) == Cardinality({ i \in DOMAIN q.ops : q.ops[i] = o })

\* C33: within one request each control (Connect, Send, Follow, Like,
\* Retweet, Reply) gets at most one click attempt.
C33_AtMostOneClickAttempt ==
  \A r \in Reqs :
    /\ \A o \in {"click:connect", "click:send"} : Attempts(li_req[r], o) <= 1
    /\ \A o \in {"click:follow", "click:like", "click:retweet", "click:reply"} :
         Attempts(tw_req[r], o) <= 1

\* C34: a follow, like or retweet that reaches a target the site already
\* shows as followed, liked or retweeted, without an operation raising,
\* answers success and has clicked nothing.
C34_CompletedShortCircuits ==
  \A r \in Reqs :
    (tw_req[r].pc = "done" /\ tw_req[r].already /\ tw_req[r].exc = ""
     /\ tw_req[r].action \in {"follow", "like", "retweet"})
      => (tw_req[r].success /\ ~Did(tw_req[r], Clicks))

\* What the HTTP client receives from a finished add-connection handler.
LiAnswer(q) == << q.http, q.success, q.msg, q.exc, q.url >>

\* C35: the client can tell a login that ended at a security checkpoint from
\* a login that failed: two requests for the same target, one of each kind,
\* are not answered alike.
C35_CheckpointDistinguishable ==
  \A p, q \in Reqs :
    (/\ li_req[p].pc = "done" /\ li_req[q].pc = "done"
     /\ li_req[p].login = "checkpoint" /\ li_req[q].login = "failed"
     /\ li_req[p].profile_url = li_req[q].profile_url
     /\ li_req[p].name = li_req[q].name
     /\ (Truthy(li_req[p].profile_url) \/ Truthy(li_req[p].name)))
      => LiAnswer(li_req[p]) # LiAnswer(li_req[q])

\* C36: a business card without name and linkedin_url, sent to a logged-in
\* worker, is answered 400.
C36_ClientErrorKeepsStatus ==
  \A r \in Reqs :
    (/\ li_req[r].pc = "done"
     /\ li_req[r].endpoint = "/api/process-business-card"
     /\ li_req[r].was_logged_in
     /\ ~Truthy(li_req[r].profile_url) /\ ~Truthy(li_req[r].name))
      => li_req[r].http = 400

\* The indices of the non-blank phone numbers, in list order.
RECURSIVE NonBlankFrom(_, _)
NonBlankFrom(nums, i) ==
  IF i > Len(nums) THEN << >>
  ELSE (IF Blank(nums[i]) THEN << >> ELSE << i >>) \o NonBlankFrom(nums, i + 1)

\* The WhatsApp loop of handler q has ended in success, or in failure.
WhatsAppSent(q) == q.whatsapp_status.head = "WhatsApp message sent successfully"
WhatsAppFailed(q) == q.whatsapp_status.head = "WhatsApp failed"

\* C37: the sends of a handler go to the non-blank phone numbers in list
\* order; a send is followed by another only if it failed; after a success
\* phone_number_used is the number of the last send, cleaned; failure is
\* returned only when every non-blank number was tried and failed.
C37_FirstSuccessfulNumber ==
  \A r \in Reqs :
    LET q == or_req[r]
        all == NonBlankFrom(q.contact.phone_numbers, 1)
        n == Len(q.tried)
    IN /\ n <= Len(all) /\ q.tried = SubSeq(all, 1, n)
       /\ \A k \in 1..(n - 1) : q.outcomes[k] # "ok"
       /\ WhatsAppSent(q) =>
            /\ n > 0 /\ q.outcomes[n] = "ok"
            /\ q.phone_number_used = clean_phone_number(q.contact.phone_numbers[q.tried[n]])
       /\ WhatsAppFailed(q) =>
            /\ q.tried = all
            /\ \A k \in 1..n : q.outcomes[k] # "ok"

\* The first number failed, the blank second one was skipped and the third
\* succeeded.
C37_Witness ==
  \E r \in Reqs :
    /\ WhatsAppSent(or_req[r])
    /\ or_req[r].tried = << 1, 3 >>
    /\ Len(or_req[r].contact.phone_numbers) = 3

\* C39: every number cleaned by clean_phone_number holds no space, dash,
\* parenthesis or dot, does not start with "+", and is left as it is by a
\* second application.
C39_Normalized ==
  \A r \in Reqs :
    \A k \in DOMAIN or_req[r].recipients :
      LET c == or_req[r].recipients[k]
      IN /\ \A i \in DOMAIN c : NotStripped(c[i])
         /\ (c # << >> => Head(c) # "+")
         /\ clean_phone_number(c) = c

\* A media value save_media_file has to turn down: blank, fewer than 10
\* characters, characters outside base64, or fewer than 100 decoded bytes.
InvalidMedia(m) ==
  m.len > 0 /\ (m.chars = 0 \/ m.chars < 10 \/ ~m.base64 \/ m.bytes < 100)

\* The contact file a handler wrote, while it is still that handler's.
OwnFiles(q) == { f \in or_files : f.id = q.contact_id /\ f.seq = q.seq }

====
